---- MODULE Spec2Model ----
(***************************************************************************)
(* Model of the PDF-to-LaTeX converter: the Math/Prose classifier          *)
(* is_math_block and the document assembler generate_latex_document of     *)
(* app/utils/latex_generator.py, extract_content_from_pdf of               *)
(* app/utils/pdf_parser.py, convert_image_to_latex of app/utils/math_ocr.py *)
(* and the upload route of app/routes.py.                                  *)
(*                                                                         *)
(* Text is a sequence of one-character strings.  A Python value is a       *)
(* record tagged with its type, so that a call with a value of the wrong   *)
(* type can be told from a call with a string.  A call's outcome is a      *)
(* record [exc, ret]: exc names the exception that left the function       *)
(* ("none" when it returned) and ret is the returned value.                *)
(***************************************************************************)
EXTENDS Integers, Sequences, FiniteSets, TLC

VARIABLES
  pc,               \* "call": the arguments are bound; "done": the call has ended
  fn,               \* the function called: "is_math_block", "generate_latex_document"
                    \* or "extract_content_from_pdf"
  text_block,       \* is_math_block's argument
  result,           \* is_math_block's outcome
  content,          \* generate_latex_document's argument
  pdf_filename_no_ext, \* generate_latex_document's second argument
  doc,              \* generate_latex_document's outcome and the locals it ended with
  pdf_path,         \* extract_content_from_pdf's argument
  pdf_file,         \* what fitz and the file system hold for pdf_path
  extracted,        \* extract_content_from_pdf's outcome
  image_path,       \* convert_image_to_latex's argument
  image_file,       \* what the file system and an OCR engine hold for image_path
  latex_formula,    \* convert_image_to_latex's outcome
  requests,         \* the upload requests being served: position and locals of each
  disk              \* the files under the upload and output folders

vars == <<pc, fn, text_block, result, content, pdf_filename_no_ext, doc,
          pdf_path, pdf_file, extracted, image_path, image_file, latex_formula,
          requests, disk>>

---------------------------------------------------------------------------
(* Python values and outcomes *)

None == [type |-> "NoneType"]
Str(s) == [type |-> "str", val |-> s]
Num(v) == [type |-> "float", val |-> v]
Return(v) == [exc |-> "none", ret |-> v]
Raise(e) == [exc |-> e, ret |-> None]

---------------------------------------------------------------------------
(* Characters *)

LowerLetters ==
  <<"a", "b", "c", "d", "e", "f", "g", "h", "i", "j", "k", "l", "m",
    "n", "o", "p", "q", "r", "s", "t", "u", "v", "w", "x", "y", "z">>
UpperLetters ==
  <<"A", "B", "C", "D", "E", "F", "G", "H", "I", "J", "K", "L", "M",
    "N", "O", "P", "Q", "R", "S", "T", "U", "V", "W", "X", "Y", "Z">>
Digits == {"0", "1", "2", "3", "4", "5", "6", "7", "8", "9"}
Range(f) == {f[i] : i \in DOMAIN f}
IsLower(c) == c \in Range(LowerLetters)
IsUpper(c) == c \in Range(UpperLetters)
IsAlpha(c) == IsLower(c) \/ IsUpper(c)
IsDigit(c) == c \in Digits
\* \w of the re module
IsWordChar(c) == IsAlpha(c) \/ IsDigit(c) \/ c = "_"
\* str.isspace, \s of the re module
IsSpace(c) == c \in {" ", "\t", "\n", "\r", "\f"}
lower_char(c) ==
  IF IsUpper(c) THEN LowerLetters[CHOOSE i \in 1..26 : UpperLetters[i] = c] ELSE c

SetMin(S) == CHOOSE x \in S : \A y \in S : x <= y
SetMax(S) == CHOOSE x \in S : \A y \in S : y <= x

---------------------------------------------------------------------------
(* str methods *)

lower(s) == [i \in 1..Len(s) |-> lower_char(s[i])]
startswith(s, p) == Len(p) <= Len(s) /\ SubSeq(s, 1, Len(p)) = p
endswith(s, p) == Len(p) <= Len(s) /\ SubSeq(s, Len(s) - Len(p) + 1, Len(s)) = p
isalpha(s) == s # <<>> /\ \A i \in 1..Len(s) : IsAlpha(s[i])

\* s.strip(): leading and trailing whitespace removed
strip(s) ==
  LET keep == {i \in 1..Len(s) : ~IsSpace(s[i])}
  IN  IF keep = {} THEN <<>> ELSE SubSeq(s, SetMin(keep), SetMax(keep))

\* s.strip(c) for a one-character c
strip_char(s, c) ==
  LET keep == {i \in 1..Len(s) : s[i] # c}
  IN  IF keep = {} THEN <<>> ELSE SubSeq(s, SetMin(keep), SetMax(keep))

\* s.lstrip() as the regular expressions' leading \s* uses it
lstrip(s) ==
  LET keep == {i \in 1..Len(s) : ~IsSpace(s[i])}
  IN  IF keep = {} THEN <<>> ELSE SubSeq(s, SetMin(keep), Len(s))

\* s.split(c) for a one-character separator c
RECURSIVE split(_, _)
split(s, c) ==
  LET at == {i \in 1..Len(s) : s[i] = c}
  IN  IF at = {} THEN <<s>>
      ELSE <<SubSeq(s, 1, SetMin(at) - 1)>>
             \o split(SubSeq(s, SetMin(at) + 1, Len(s)), c)

\* s.split(sep) for a separator of two characters: leftmost matches, not overlapping
RECURSIVE split2(_, _)
split2(s, sep) ==
  LET at == {i \in 1..(Len(s) - 1) : SubSeq(s, i, i + 1) = sep}
  IN  IF at = {} THEN <<s>>
      ELSE <<SubSeq(s, 1, SetMin(at) - 1)>>
             \o split2(SubSeq(s, SetMin(at) + 2, Len(s)), sep)

\* len(s.split('\n'))
len_lines(s) == Cardinality({i \in 1..Len(s) : s[i] = "\n"}) + 1

\* len(s.split()): the number of maximal runs of non-whitespace
len_split(s) ==
  Cardinality({i \in 1..Len(s) : ~IsSpace(s[i]) /\ (i = 1 \/ IsSpace(s[i - 1]))})

\* s.replace(old, new) for a one-character old
RECURSIVE replace(_, _, _)
replace(s, old, new) ==
  IF s = <<>> THEN <<>>
  ELSE (IF Head(s) = old THEN new ELSE <<Head(s)>>) \o replace(Tail(s), old, new)

\* sep.join(parts)
RECURSIVE join(_, _)
join(sep, parts) ==
  IF parts = <<>> THEN <<>>
  ELSE IF Len(parts) = 1 THEN parts[1]
  ELSE parts[1] \o sep \o join(sep, Tail(parts))

\* the number of characters of s that lie in the set cs
CountIn(s, cs) == Cardinality({i \in 1..Len(s) : s[i] \in cs})

---------------------------------------------------------------------------
(* is_math_block: the tables *)

explicit_env_pairs ==
  << << <<"$", "$">>,
        <<"$", "$">> >>,
     << <<"\\", "[">>,
        <<"\\", "]">> >>,
     << <<"\\", "b", "e", "g", "i", "n", "{", "e", "q", "u", "a", "t", "i", "o", "n", "}">>,
        <<"\\", "e", "n", "d", "{", "e", "q", "u", "a", "t", "i", "o", "n", "}">> >>,
     << <<"\\", "b", "e", "g", "i", "n", "{", "e", "q", "u", "a", "t", "i", "o", "n", "*", "}">>,
        <<"\\", "e", "n", "d", "{", "e", "q", "u", "a", "t", "i", "o", "n", "*", "}">> >>,
     << <<"\\", "b", "e", "g", "i", "n", "{", "a", "l", "i", "g", "n", "}">>,
        <<"\\", "e", "n", "d", "{", "a", "l", "i", "g", "n", "}">> >>,
     << <<"\\", "b", "e", "g", "i", "n", "{", "a", "l", "i", "g", "n", "*", "}">>,
        <<"\\", "e", "n", "d", "{", "a", "l", "i", "g", "n", "*", "}">> >>,
     << <<"\\", "b", "e", "g", "i", "n", "{", "g", "a", "t", "h", "e", "r", "}">>,
        <<"\\", "e", "n", "d", "{", "g", "a", "t", "h", "e", "r", "}">> >>,
     << <<"\\", "b", "e", "g", "i", "n", "{", "g", "a", "t", "h", "e", "r", "*", "}">>,
        <<"\\", "e", "n", "d", "{", "g", "a", "t", "h", "e", "r", "*", "}">> >>,
     << <<"\\", "b", "e", "g", "i", "n", "{", "m", "u", "l", "t", "l", "i", "n", "e", "}">>,
        <<"\\", "e", "n", "d", "{", "m", "u", "l", "t", "l", "i", "n", "e", "}">> >>,
     << <<"\\", "b", "e", "g", "i", "n", "{", "m", "u", "l", "t", "l", "i", "n", "e", "*", "}">>,
        <<"\\", "e", "n", "d", "{", "m", "u", "l", "t", "l", "i", "n", "e", "*", "}">> >>,
     << <<"\\", "b", "e", "g", "i", "n", "{", "d", "i", "s", "p", "l", "a", "y", "m", "a", "t", "h", "}">>,
        <<"\\", "e", "n", "d", "{", "d", "i", "s", "p", "l", "a", "y", "m", "a", "t", "h", "}">> >> >>

latex_text_commands ==
  << <<"s", "e", "c", "t", "i", "o", "n">>,
     <<"s", "u", "b", "s", "e", "c", "t", "i", "o", "n">>,
     <<"s", "u", "b", "s", "u", "b", "s", "e", "c", "t", "i", "o", "n">>,
     <<"p", "a", "r", "a", "g", "r", "a", "p", "h">>,
     <<"c", "a", "p", "t", "i", "o", "n">>,
     <<"l", "a", "b", "e", "l">>,
     <<"r", "e", "f">>,
     <<"t", "e", "x", "t", "i", "t">>,
     <<"t", "e", "x", "t", "b", "f">>,
     <<"t", "e", "x", "t", "t", "t">>,
     <<"i", "t", "e", "m">>,
     <<"f", "o", "o", "t", "n", "o", "t", "e">>,
     <<"c", "h", "a", "p", "t", "e", "r">>,
     <<"p", "a", "r", "t">>,
     <<"t", "e", "x", "t", "n", "o", "r", "m", "a", "l">>,
     <<"e", "m", "p", "h">> >>

common_short_prose ==
  { <<"c", "o", "n", "c", "l", "u", "s", "i", "o", "n">>,
    <<"i", "n", "t", "r", "o", "d", "u", "c", "t", "i", "o", "n">>,
    <<"s", "u", "m", "m", "a", "r", "y">>,
    <<"a", "b", "s", "t", "r", "a", "c", "t">>,
    <<"r", "e", "s", "u", "l", "t", "s">>,
    <<"d", "i", "s", "c", "u", "s", "s", "i", "o", "n">>,
    <<"m", "e", "t", "h", "o", "d", "s">>,
    <<"n", "o", "t", "e">>,
    <<"f", "i", "g", "u", "r", "e">>,
    <<"t", "a", "b", "l", "e">>,
    <<"a", "p", "p", "e", "n", "d", "i", "x">> }

math_keywords ==
  << <<"s", "u", "m">>,
     <<"i", "n", "t">>,
     <<"f", "r", "a", "c">>,
     <<"s", "q", "r", "t">>,
     <<"l", "i", "m">>,
     <<"a", "l", "p", "h", "a">>,
     <<"b", "e", "t", "a">>,
     <<"g", "a", "m", "m", "a">>,
     <<"d", "e", "l", "t", "a">>,
     <<"o", "m", "e", "g", "a">>,
     <<"s", "i", "n">>,
     <<"c", "o", "s">>,
     <<"l", "o", "g">>,
     <<"p", "r", "o", "d">>,
     <<"p", "a", "r", "t", "i", "a", "l">>,
     <<"n", "a", "b", "l", "a">>,
     <<"i", "n", "f", "t", "y">>,
     <<"f", "o", "r", "a", "l", "l">>,
     <<"e", "x", "i", "s", "t", "s">>,
     <<"i", "n">>,
     <<"n", "o", "t", "i", "n">>,
     <<"s", "u", "b", "s", "e", "t">>,
     <<"s", "u", "p", "s", "e", "t">>,
     <<"a", "p", "p", "r", "o", "x">>,
     <<"e", "q", "u", "i", "v">>,
     <<"n", "e", "q">>,
     <<"l", "e", "q">>,
     <<"g", "e", "q">>,
     <<"t", "i", "m", "e", "s">>,
     <<"d", "i", "v">>,
     <<"p", "m">>,
     <<"m", "p">>,
     <<"c", "d", "o", "t">>,
     <<"c", "i", "r", "c">>,
     <<"w", "e", "d", "g", "e">>,
     <<"v", "e", "e">>,
     <<"c", "a", "p">>,
     <<"c", "u", "p">>,
     <<"o", "p", "l", "u", "s">>,
     <<"o", "t", "i", "m", "e", "s">>,
     <<"p", "e", "r", "p">>,
     <<"a", "n", "g", "l", "e">>,
     <<"h", "b", "a", "r">>,
     <<"m", "a", "t", "h", "b", "b">>,
     <<"m", "a", "t", "h", "c", "a", "l">>,
     <<"m", "a", "t", "h", "b", "f">>,
     <<"m", "a", "t", "h", "r", "m">>,
     <<"m", "a", "t", "h", "s", "f">>,
     <<"m", "a", "t", "h", "t", "t">>,
     <<"t", "e", "x", "t", "r", "m">>,
     <<"t", "e", "x", "t", "i", "t">>,
     <<"t", "e", "x", "t", "b", "f">> >>

\* the character class [=+\-*/^_{}\[\]<>\\$] of the two density counts; the
\* alternative \\(frac|sum|...) after it never matches, because the class
\* already takes the backslash that would start it
math_indicator_chars ==
  {"=", "+", "-", "*", "/", "^", "_", "{", "}", "[", "]", "<", ">", "\\", "$"}

\* the character class [=<>+\-*/^_{}()\[\]|%] of math_keywords_re
math_symbol_chars ==
  {"=", "<", ">", "+", "-", "*", "/", "^", "_", "{", "}", "(", ")", "[", "]", "|", "%"}

sentence_punctuation == {".", "?", "!"}

---------------------------------------------------------------------------
(* is_math_block: the rules *)

\* 1. the block starts and ends with a pair of explicit_env_pairs
explicit_delimited(tb) ==
  \E k \in 1..Len(explicit_env_pairs) :
     LET start_delim == explicit_env_pairs[k][1]
         end_delim   == explicit_env_pairs[k][2]
     IN  \/ startswith(tb, start_delim) /\ endswith(tb, end_delim)
         \/ /\ start_delim = <<"$", "$">>
            /\ startswith(tb, <<"$", "$", "\n">>)
            /\ endswith(tb, <<"\n", "$", "$">>)

\* latex_text_commands_re without re.IGNORECASE
latex_text_commands_re_case_sensitive(line) ==
  LET rest == lstrip(line)
  IN  /\ rest # <<>>
      /\ rest[1] = "\\"
      /\ \E k \in 1..Len(latex_text_commands) :
            LET cmd == latex_text_commands[k]
                n   == Len(cmd)
            IN  /\ Len(rest) >= n + 1
                /\ SubSeq(rest, 2, n + 1) = cmd
                /\ (Len(rest) = n + 1 \/ ~IsWordChar(rest[n + 2]))

\* latex_text_commands_re.match(line): ^\s*\\(section|...|emph)\b, IGNORECASE
latex_text_commands_re(line) ==
  LET rest == lstrip(line)
  IN  /\ rest # <<>>
      /\ rest[1] = "\\"
      /\ \E k \in 1..Len(latex_text_commands) :
            LET cmd == latex_text_commands[k]
                n   == Len(cmd)
            IN  /\ Len(rest) >= n + 1
                /\ lower(SubSeq(rest, 2, n + 1)) = cmd
                /\ (Len(rest) = n + 1 \/ ~IsWordChar(rest[n + 2]))

\* markdown_list_re.match(line): ^\s*([-*+]|\d+\.)\s+
markdown_list_re(line) ==
  LET rest == lstrip(line)
      nd   == IF \E i \in 1..Len(rest) : ~IsDigit(rest[i])
              THEN SetMin({i \in 1..Len(rest) : ~IsDigit(rest[i])}) - 1
              ELSE Len(rest)
  IN  \/ /\ Len(rest) >= 2
         /\ rest[1] \in {"-", "*", "+"}
         /\ IsSpace(rest[2])
      \/ /\ nd >= 1
         /\ Len(rest) >= nd + 2
         /\ rest[nd + 1] = "."
         /\ IsSpace(rest[nd + 2])

\* 2. some line starts with a LaTeX text command
has_text_command_line(lines) ==
  \E i \in 1..Len(lines) : latex_text_commands_re(lines[i])

\* a short markdown list with fewer math symbols than lines
is_text_list(tb, lines) ==
  LET num_lines      == Len(lines)
      non_list_lines == Cardinality({i \in 1..num_lines : ~markdown_list_re(lines[i])})
      math_symbols_in_block == CountIn(tb, math_indicator_chars)
  IN  /\ \E i \in 1..num_lines : markdown_list_re(lines[i])
      /\ num_lines <= 5
      /\ non_list_lines <= 1
      /\ math_symbols_in_block < num_lines

ends_sentence(s) == s # <<>> /\ s[Len(s)] \in sentence_punctuation

\* sentence structure: more than 8 words, final punctuation, few math indicators
is_sentence_prose(tb, lines) ==
  LET num_lines  == Len(lines)
      len_words  == len_split(tb)
      math_indicators_count == CountIn(tb, math_indicator_chars)
      sentence_end_count ==
        Cardinality({i \in 1..num_lines : ends_sentence(strip(lines[i]))})
  IN  /\ len_words > 8
      /\ ends_sentence(tb)
      \* math_indicators_count < max(1, len(words) / 10, num_lines / 2)
      /\ \/ math_indicators_count < 1
         \/ 10 * math_indicators_count < len_words
         \/ 2 * math_indicators_count < num_lines
      /\ \/ 2 * sentence_end_count > num_lines
         \/ (num_lines = 1 /\ sentence_end_count = 1)

\* a one-line block that is a common section-header word
is_common_short_prose(tb, lines) ==
  /\ Len(lines) = 1
  /\ len_split(tb) <= 2
  /\ strip_char(strip_char(lower(tb), "."), ":") \in common_short_prose

---------------------------------------------------------------------------
(* is_math_block: the per-line scoring *)

\* the positions of line where math_keywords_re matches a LaTeX command
keyword_positions(line) ==
  {i \in 1..Len(line) :
     /\ line[i] = "\\"
     /\ \E k \in 1..Len(math_keywords) :
           startswith(SubSeq(line, i + 1, Len(line)), math_keywords[k])}

\* Check 1: \S+\s*=\s*\S+ , ^[a-zA-Z0-9_]+\(.+\)\s*= , \\frac.+=
\* (line is stripped, so an "=" has a non-blank before it unless it is first,
\* and one after it unless it is last)
equation_pattern(line) ==
  LET n == Len(line)
      word_run == IF \E i \in 1..n : ~IsWordChar(line[i])
                  THEN SetMin({i \in 1..n : ~IsWordChar(line[i])}) - 1
                  ELSE n
  IN  \/ \E i \in 2..(n - 1) : line[i] = "="
      \/ /\ word_run >= 1
         /\ word_run < n
         /\ line[word_run + 1] = "("
         /\ \E p \in (word_run + 3)..n :
               /\ line[p] = ")"
               /\ \E q \in (p + 1)..n :
                     /\ line[q] = "="
                     /\ \A r \in (p + 1)..(q - 1) : IsSpace(line[r])
      \/ \E p \in 1..(n - 4) :
            /\ SubSeq(line, p, p + 4) = <<"\\", "f", "r", "a", "c">>
            /\ \E q \in (p + 6)..n : line[q] = "="

\* re.fullmatch(r"[a-zA-Z0-9_^{}]+", line_stripped.replace("\\", ""))
variable_name_shaped(line) ==
  LET bare == replace(line, "\\", <<>>)
  IN  /\ bare # <<>>
      /\ \A i \in 1..Len(bare) : IsWordChar(bare[i]) \/ bare[i] \in {"^", "{", "}"}

\* line_kind counting a lone command in a block of any number of lines
line_kind_weak_in_any_block(line, num_lines, len_words) ==
  LET line_stripped     == strip(line)
      num_math_keywords == Cardinality(keyword_positions(line_stripped))
                             + CountIn(line_stripped, math_symbol_chars)
      has_latex_cmd     == keyword_positions(line_stripped) # {}
      has_operator_or_bracket == CountIn(line_stripped, math_symbol_chars) > 0
  IN  IF line_stripped = <<>> \/ line_stripped[1] = "%" THEN "skip"
      ELSE IF equation_pattern(line_stripped) THEN "strong"
      ELSE IF \/ has_latex_cmd /\ has_operator_or_bracket
              \/ has_latex_cmd /\ num_math_keywords > 1
              \/ num_math_keywords > 2 /\ ~has_latex_cmd
           THEN "strong"
      ELSE IF has_latex_cmd THEN "weak"
      ELSE "none"

\* what the loop over lines does with one line: "skip" (empty or comment),
\* "strong" (both counters), "weak" (equation_line_count only) or "none"
line_kind(line, num_lines, len_words) ==
  LET line_stripped     == strip(line)
      num_math_keywords == Cardinality(keyword_positions(line_stripped))
                             + CountIn(line_stripped, math_symbol_chars)
      has_latex_cmd     == keyword_positions(line_stripped) # {}
      has_operator_or_bracket == CountIn(line_stripped, math_symbol_chars) > 0
  IN  IF line_stripped = <<>> \/ line_stripped[1] = "%" THEN "skip"
      ELSE IF equation_pattern(line_stripped) THEN "strong"
      ELSE IF \/ has_latex_cmd /\ has_operator_or_bracket
              \/ has_latex_cmd /\ num_math_keywords > 1
              \/ num_math_keywords > 2 /\ ~has_latex_cmd
           THEN "strong"
      ELSE IF has_latex_cmd /\ num_lines = 1 THEN "weak"
      ELSE IF /\ num_math_keywords >= 1
              /\ num_lines = 1
              /\ len_words < 3
              /\ Len(line_stripped) < 15
              /\ variable_name_shaped(line_stripped)
           THEN "weak"
      ELSE "none"

equation_line_count(tb, lines) ==
  Cardinality({i \in 1..Len(lines) :
     line_kind(lines[i], Len(lines), len_split(tb)) \in {"strong", "weak"}})

strong_math_line_count(tb, lines) ==
  Cardinality({i \in 1..Len(lines) :
     line_kind(lines[i], Len(lines), len_split(tb)) = "strong"})

---------------------------------------------------------------------------
(* is_math_block: the decision *)

\* re.fullmatch(r"[a-zA-Z0-9_^{}\[\]()+\-*/=<>|%]+", text_block)
identifier_or_operator_shaped(tb) ==
  /\ tb # <<>>
  /\ \A i \in 1..Len(tb) :
        \/ IsWordChar(tb[i])
        \/ tb[i] \in {"^", "{", "}", "[", "]", "(", ")", "+", "-", "*", "/",
                      "=", "<", ">", "|", "%"}

\* single_line_decision taking any counted line for math
single_line_decision_any_signal(tb, lines) ==
  equation_line_count(tb, lines) >= 1

\* Case 1: a single line
single_line_decision(tb, lines) ==
  IF strong_math_line_count(tb, lines) >= 1 THEN TRUE
  ELSE /\ equation_line_count(tb, lines) >= 1
       /\ len_split(tb) <= 2
       /\ Len(tb) < 15
       /\ (tb[1] = "\\" \/ identifier_or_operator_shaped(tb))
       /\ ~ \/ lower(tb) \in common_short_prose
            \/ Len(tb) > 3 /\ isalpha(tb) /\ tb[1] # "\\"

\* multi_line_decision with the share of strong lines lowered to 0.3
multi_line_decision_lower_share(tb, lines) ==
  LET num_lines == Len(lines)
      eq        == equation_line_count(tb, lines)
      strong    == strong_math_line_count(tb, lines)
  IN  IF \/ 10 * eq >= 6 * num_lines
         \/ 10 * strong >= 3 * num_lines /\ num_lines <= 5
      THEN IF len_split(tb) > num_lines * 7 /\ num_lines > 2 /\ 10 * eq < 8 * num_lines
           THEN FALSE
           ELSE TRUE
      ELSE FALSE

\* multi_line_decision with the lenient share for blocks of any length
multi_line_decision_lenient_any_length(tb, lines) ==
  LET num_lines == Len(lines)
      eq        == equation_line_count(tb, lines)
      strong    == strong_math_line_count(tb, lines)
  IN  IF \/ 10 * eq >= 6 * num_lines
         \/ 10 * strong >= 4 * num_lines
      THEN IF len_split(tb) > num_lines * 7 /\ num_lines > 2 /\ 10 * eq < 8 * num_lines
           THEN FALSE
           ELSE TRUE
      ELSE FALSE

\* multi_line_decision with the shares taken over the non-empty lines
multi_line_decision_non_empty_lines(tb, lines) ==
  LET num_lines == Cardinality({i \in 1..Len(lines) : strip(lines[i]) # <<>>})
      eq        == equation_line_count(tb, lines)
      strong    == strong_math_line_count(tb, lines)
  IN  IF \/ 10 * eq >= 6 * num_lines
         \/ 10 * strong >= 4 * num_lines /\ num_lines <= 5
      THEN IF len_split(tb) > num_lines * 7 /\ num_lines > 2 /\ 10 * eq < 8 * num_lines
           THEN FALSE
           ELSE TRUE
      ELSE FALSE

\* Case 2: several lines
multi_line_decision(tb, lines) ==
  LET num_lines == Len(lines)
      eq        == equation_line_count(tb, lines)
      strong    == strong_math_line_count(tb, lines)
  IN  IF \/ 10 * eq >= 6 * num_lines
         \/ 10 * strong >= 4 * num_lines /\ num_lines <= 5
      THEN IF len_split(tb) > num_lines * 7 /\ num_lines > 2 /\ 10 * eq < 8 * num_lines
           THEN FALSE
           ELSE TRUE
      ELSE IF num_lines > 5 /\ 2 * eq < num_lines THEN FALSE
      ELSE FALSE

\* classify_rules with the text-command rule ahead of the delimiter rule
classify_rules_text_command_first(tb) ==
  LET lines == split(tb, "\n")
  IN  IF has_text_command_line(lines) THEN FALSE
      ELSE IF explicit_delimited(tb) THEN TRUE
      ELSE IF is_text_list(tb, lines) THEN FALSE
      ELSE IF is_sentence_prose(tb, lines) THEN FALSE
      ELSE IF is_common_short_prose(tb, lines) THEN FALSE
      ELSE IF Len(lines) = 1 THEN single_line_decision(tb, lines)
      ELSE multi_line_decision(tb, lines)

\* classify_rules with the long-block test of lines 82-87 rejecting a block of
\* more than 15 lines whose first line starts with a capital and ends in a period
classify_rules_long_block_prose(tb) ==
  LET lines == split(tb, "\n")
  IN  IF explicit_delimited(tb) THEN TRUE
      ELSE IF has_text_command_line(lines) THEN FALSE
      ELSE IF is_text_list(tb, lines) THEN FALSE
      ELSE IF is_sentence_prose(tb, lines) THEN FALSE
      ELSE IF Len(lines) > 15 /\ IsUpper(tb[1]) /\ endswith(lines[1], <<".">>) THEN FALSE
      ELSE IF is_common_short_prose(tb, lines) THEN FALSE
      ELSE IF Len(lines) = 1 THEN single_line_decision(tb, lines)
      ELSE multi_line_decision(tb, lines)

\* the rules in the function's order, for a stripped block that is not empty
classify_rules(tb) ==
  LET lines == split(tb, "\n")
  IN  IF explicit_delimited(tb) THEN TRUE
      ELSE IF has_text_command_line(lines) THEN FALSE
      ELSE IF is_text_list(tb, lines) THEN FALSE
      ELSE IF is_sentence_prose(tb, lines) THEN FALSE
      ELSE IF is_common_short_prose(tb, lines) THEN FALSE
      ELSE IF Len(lines) = 1 THEN single_line_decision(tb, lines)
      ELSE multi_line_decision(tb, lines)

\* classify with the empty-block test inverted
classify_blank_is_math(s) ==
  IF strip(s) = <<>> THEN TRUE ELSE classify_rules(strip(s))

\* the body of is_math_block for a str argument s
classify(s) ==
  IF strip(s) = <<>> THEN FALSE ELSE classify_rules(strip(s))

\* is_math_block(text_block): text_block.strip() is the first thing it does, and
\* a value that is not a str has no such method
is_math_block(v) ==
  IF v.type # "str" THEN Raise("AttributeError") ELSE Return(classify(v.val))

---------------------------------------------------------------------------
(* generate_latex_document: margins and the geometry directive *)

\* A number of centimetres is held in thousandths (2.54 cm is 2540).  A dict
\* is the sequence of its <<key, value>> items in insertion order, keys
\* distinct; a key the caller left out of content is Absent.
Absent == [type |-> "absent"]
List(s) == [type |-> "list", val |-> s]
Dict(items) == [type |-> "dict", val |-> items]
\* content.get(key, default), v being what content holds at key
get(v, default) == IF v.type = "absent" THEN default ELSE v
\* k in d
has_key(d, k) == d.type = "dict" /\ \E i \in 1..Len(d.val) : d.val[i][1] = k
\* d[k] of a dict that has k
item(d, k) == d.val[CHOOSE i \in 1..Len(d.val) : d.val[i][1] = k][2]
\* d.get(k)
dict_get(d, k) == IF has_key(d, k) THEN item(d, k) ELSE None
\* bool(v) of a dict, a list, a str or None
truthy(v) ==
  CASE v.type \in {"dict", "list", "str"} -> v.val # <<>>
    [] OTHER -> FALSE

DigitChars == <<"0", "1", "2", "3", "4", "5", "6", "7", "8", "9">>
digit_value(c) == (CHOOSE i \in 1..10 : DigitChars[i] = c) - 1

RECURSIVE digits_value(_)
digits_value(s) ==
  IF s = <<>> THEN 0 ELSE 10 * digits_value(SubSeq(s, 1, Len(s) - 1)) + digit_value(s[Len(s)])

RECURSIVE str_int(_)
str_int(n) == IF n < 10 THEN <<DigitChars[n + 1]>> ELSE str_int(n \div 10) \o <<DigitChars[(n % 10) + 1]>>

RECURSIVE pow10(_)
pow10(n) == IF n = 0 THEN 1 ELSE 10 * pow10(n - 1)

\* float(v), as the fraction num/den: a number as it is; a str that is a decimal
\* literal (optional sign, digits, optional point and decimals, blanks around
\* it) as its value, any other str ValueError; None TypeError.  The literals
\* with an exponent, inf and nan are not among the values the calls draw.
float(v) ==
  CASE v.type = "float" -> Return([num |-> v.val, den |-> 1000])
    [] v.type = "str" ->
         LET t        == strip(v.val)
             negative == t # <<>> /\ t[1] = "-"
             unsigned == IF t # <<>> /\ t[1] \in {"-", "+"} THEN Tail(t) ELSE t
             points   == {i \in 1..Len(unsigned) : unsigned[i] = "."}
             whole    == IF points = {} THEN unsigned
                         ELSE SubSeq(unsigned, 1, SetMin(points) - 1)
             decimals == IF points = {} THEN <<>>
                         ELSE SubSeq(unsigned, SetMin(points) + 1, Len(unsigned))
             value    == digits_value(whole \o decimals)
         IN  IF /\ whole \o decimals # <<>>
                /\ \A i \in 1..Len(whole) : IsDigit(whole[i])
                /\ \A i \in 1..Len(decimals) : IsDigit(decimals[i])
             THEN Return([num |-> IF negative THEN 0 - value ELSE value,
                          den |-> pow10(Len(decimals))])
             ELSE Raise("ValueError")
    [] OTHER -> Raise("TypeError")

\* max(0, x)
max0(x) == IF x.num > 0 THEN x ELSE [num |-> 0, den |-> 1]

\* f"{x:.2f}" of x >= 0: rounded to hundredths (half to even)
format_2f(x) ==
  LET q == (100 * x.num) \div x.den
      r == (100 * x.num) % x.den
      h == IF 2 * r > x.den \/ (2 * r = x.den /\ q % 2 = 1) THEN q + 1 ELSE q
  IN  str_int(h \div 100) \o <<".">> \o <<DigitChars[((h % 100) \div 10) + 1]>>
        \o <<DigitChars[(h % 10) + 1]>>

margin_keys == <<"left", "right", "top", "bottom">>

\* A line of the document is a sequence of pieces: the literal text of the
\* source's string (a string) and the values formatted into it (sequences of
\* characters); a line's first piece is always literal text.
default_geometry == <<"\\usepackage[a4paper, margin=2cm]{geometry}">>

\* geometry_package_str with the left margin written as the right one too
geometry_package_str_left_for_right(margins) ==
  IF truthy(margins) /\ \A i \in 1..4 : has_key(margins, margin_keys[i])
  THEN LET m == [i \in 1..4 |-> float(item(margins, margin_keys[i]))]
       IN  IF \E i \in 1..4 : m[i].exc # "none"
           THEN default_geometry
           ELSE <<"\\usepackage[left=", format_2f(max0(m[1].ret)), "cm,",
                  "right=", format_2f(max0(m[1].ret)), "cm,",
                  "top=", format_2f(max0(m[3].ret)), "cm,",
                  "bottom=", format_2f(max0(m[4].ret)), "cm,",
                  "includefoot, headheight=13.6pt]{geometry}">>
  ELSE default_geometry

geometry_package_str(margins) ==
  IF truthy(margins) /\ \A i \in 1..4 : has_key(margins, margin_keys[i])
  THEN LET m == [i \in 1..4 |-> float(item(margins, margin_keys[i]))]
       IN  IF \E i \in 1..4 : m[i].exc # "none"
           THEN default_geometry           \* except (ValueError, TypeError)
           ELSE <<"\\usepackage[left=", format_2f(max0(m[1].ret)), "cm,",
                  "right=", format_2f(max0(m[2].ret)), "cm,",
                  "top=", format_2f(max0(m[3].ret)), "cm,",
                  "bottom=", format_2f(max0(m[4].ret)), "cm,",
                  "includefoot, headheight=13.6pt]{geometry}">>
  ELSE default_geometry

---------------------------------------------------------------------------
(* generate_latex_document: the escaper and the body *)

upper_char(c) ==
  IF IsLower(c) THEN UpperLetters[CHOOSE i \in 1..26 : LowerLetters[i] = c] ELSE c
\* s.title()
title(s) ==
  [i \in 1..Len(s) |->
     IF i = 1 \/ ~IsAlpha(s[i - 1]) THEN upper_char(s[i]) ELSE lower_char(s[i])]

\* The typographic characters of the table are written by name, and so is the
\* grave accent of their replacements: a name stands for the one character.
replacements ==
  << << "\\", <<"\\", "t", "e", "x", "t", "b", "a", "c", "k", "s", "l", "a", "s", "h", "{", "}">> >>,
     << "{", <<"\\", "{">> >>,
     << "}", <<"\\", "}">> >>,
     << "_", <<"\\", "_">> >>,
     << "^", <<"\\", "t", "e", "x", "t", "a", "s", "c", "i", "i", "c", "i", "r", "c", "u", "m", "{", "}">> >>,
     << "~", <<"\\", "t", "e", "x", "t", "a", "s", "c", "i", "i", "t", "i", "l", "d", "e", "{", "}">> >>,
     << "&", <<"\\", "&">> >>,
     << "$", <<"\\", "$">> >>,
     << "#", <<"\\", "#">> >>,
     << "%", <<"\\", "%">> >>,
     << "LDQUO", <<"GRAVE", "GRAVE">> >>,
     << "RDQUO", <<"'", "'">> >>,
     << "LSQUO", <<"GRAVE">> >>,
     << "RSQUO", <<"'">> >>,
     << "EMDASH", <<"-", "-", "-">> >>,
     << "ENDASH", <<"-", "-">> >>,
     << "ELLIPSIS", <<"\\", "d", "o", "t", "s", "{", "}">> >> >>

\* the backslash pass, then a pass per other entry in the table's order
RECURSIVE replacement_passes(_, _)
replacement_passes(text, k) ==
  IF k > Len(replacements) THEN text
  ELSE replacement_passes(replace(text, replacements[k][1], replacements[k][2]), k + 1)

\* the passes with the backslash pass last instead of first
escape_backslash_last(text) ==
  replace(replacement_passes(text, 2), replacements[1][1], replacements[1][2])

escape(text) == replacement_passes(text, 1)

\* render_paragraph appending nothing for a whitespace-only paragraph
render_paragraph_drops_blank(para_text) ==
  IF is_math_block(Str(para_text)).ret = TRUE
  THEN << <<"$", "$", "\n">> \o strip(para_text) \o <<"\n", "$", "$">> >>
  ELSE IF strip(para_text) # <<>>
       THEN <<replace(para_text, "\n", <<" ", "\\", "\\", " ">>)>>
       ELSE <<>>

\* render_paragraph leaving the line breaks of a prose paragraph as they are
render_paragraph_keeps_line_breaks(para_text) ==
  IF is_math_block(Str(para_text)).ret = TRUE
  THEN << <<"$", "$", "\n">> \o strip(para_text) \o <<"\n", "$", "$">> >>
  ELSE IF para_text # <<>> THEN <<para_text>> ELSE <<>>

\* what the loop appends to processed_latex_parts for one paragraph
render_paragraph(para_text) ==
  IF is_math_block(Str(para_text)).ret = TRUE
  THEN << <<"$", "$", "\n">> \o strip(para_text) \o <<"\n", "$", "$">> >>
  ELSE IF strip(para_text) # <<>>
       THEN <<replace(para_text, "\n", <<" ", "\\", "\\", " ">>)>>
       ELSE IF para_text # <<>> THEN <<para_text>> ELSE <<>>

RECURSIVE concat(_)
concat(ss) == IF ss = <<>> THEN <<>> ELSE Head(ss) \o concat(Tail(ss))

---------------------------------------------------------------------------
(* generate_latex_document: the images/formulas section *)

\* os.path.basename of a path whose separators are "/"
basename(p) ==
  LET at == {i \in 1..Len(p) : p[i] = "/"}
  IN  IF at = {} THEN p ELSE SubSeq(p, SetMax(at) + 1, Len(p))

img_width_cm_str(margins) ==
  IF truthy(margins) /\ has_key(margins, "width")
  THEN LET content_width_cm == float(item(margins, "width"))
       IN  IF content_width_cm.exc = "none" /\ content_width_cm.ret.num > 0
           THEN <<"w", "i", "d", "t", "h", "=">>
                  \o format_2f([num |-> content_width_cm.ret.num * 8,
                                den |-> content_width_cm.ret.den * 10])
                  \o <<"c", "m", ",", " ">>
           ELSE <<>>
  ELSE <<>>

\* image_entry testing ocr_latex against None only
image_entry_not_none(img_path, math_ocr_content, margins) ==
  LET img_path_latex == replace(img_path, "\\", <<"/">>)
      img_filename_for_caption ==
        replace(basename(img_path_latex), "_", <<"\\", "_">>)
      ocr_latex == dict_get(math_ocr_content, img_path)
  IN  IF ocr_latex.type = "str"
      THEN << <<"\n% Image ", img_filename_for_caption, " was OCR'd as a formula:">>,
              <<"", ocr_latex.val>> >>
      ELSE << <<"\n\\begin{figure}[htbp]">>,
              <<"  \\centering">>,
              <<"  \\includegraphics[", img_width_cm_str(margins),
                "keepaspectratio]{", img_path_latex, "}">>,
              <<"  \\caption{Image: ", img_filename_for_caption, "}">>,
              <<"\\end{figure}">> >>

\* the lines one image adds
image_entry(img_path, math_ocr_content, margins) ==
  LET img_path_latex == replace(img_path, "\\", <<"/">>)
      img_filename_for_caption ==
        replace(basename(img_path_latex), "_", <<"\\", "_">>)
      ocr_latex == dict_get(math_ocr_content, img_path)
  IN  IF truthy(ocr_latex)
      THEN << <<"\n% Image ", img_filename_for_caption, " was OCR'd as a formula:">>,
              <<"", ocr_latex.val>> >>
      ELSE << <<"\n\\begin{figure}[htbp]">>,
              <<"  \\centering">>,
              <<"  \\includegraphics[", img_width_cm_str(margins),
                "keepaspectratio]{", img_path_latex, "}">>,
              <<"  \\caption{Image: ", img_filename_for_caption, "}">>,
              <<"\\end{figure}">> >>

\* images_section walking math_ocr's keys first and the other images after
images_section_formulas_first(image_paths, math_ocr_content, margins) ==
  IF ~truthy(image_paths) THEN <<>>
  ELSE LET keyed == [i \in 1..Len(math_ocr_content.val) |->
                       IF \E j \in 1..Len(image_paths.val) :
                             image_paths.val[j] = math_ocr_content.val[i][1]
                       THEN image_entry(math_ocr_content.val[i][1], math_ocr_content, margins)
                       ELSE <<>>]
           others == [i \in 1..Len(image_paths.val) |->
                       IF has_key(math_ocr_content, image_paths.val[i]) THEN <<>>
                       ELSE image_entry(image_paths.val[i], math_ocr_content, margins)]
       IN  << <<"\n\n\\clearpage % Ensure images start after text, or on new page if needed">>,
              <<"\\section*{Extracted Images/Formulas}">> >>
             \o concat(keyed) \o concat(others)

\* images_section with its heading also when there is no image
images_section_always_headed(image_paths, math_ocr_content, margins) ==
  << <<"\n\n\\clearpage % Ensure images start after text, or on new page if needed">>,
     <<"\\section*{Extracted Images/Formulas}">> >>
    \o concat([i \in 1..Len(image_paths.val) |->
                 image_entry(image_paths.val[i], math_ocr_content, margins)])

images_section(image_paths, math_ocr_content, margins) ==
  IF ~truthy(image_paths) THEN <<>>
  ELSE << <<"\n\n\\clearpage % Ensure images start after text, or on new page if needed">>,
          <<"\\section*{Extracted Images/Formulas}">> >>
         \o concat([i \in 1..Len(image_paths.val) |->
                      image_entry(image_paths.val[i], math_ocr_content, margins)])

---------------------------------------------------------------------------
(* generate_latex_document *)

preamble(margins, filename) ==
  << <<"\\documentclass{article}">>,
     <<"\\usepackage{graphicx}">>,
     <<"\\usepackage{amsmath}">>,
     <<"\\usepackage[utf8]{inputenc}">>,
     geometry_package_str(margins),
     <<"\\usepackage{hyperref}">>,
     <<"\\hypersetup{colorlinks=true, linkcolor=blue, filecolor=magenta, urlcolor=cyan, pdftitle={",
       title(replace(filename, "_", <<" ">>)),
       "}, pdfauthor={PDF Conversion Service}}">>,
     <<"\\title{", title(replace(filename, "_", <<" ">>)), "}">>,
     <<"\\author{PDF Conversion Service}">>,
     <<"\\date{\\today}">>,
     <<"\\begin{document}">>,
     <<"\\maketitle">> >>

\* The outcome: ret is latex_parts, the lines that "\n".join makes the returned
\* document of; the other fields are the locals the call ended with.
generate_latex_document(c, filename) ==
  LET margins          == get(c.margins, None)
      extracted_text   == escape(get(c.text, Str(<<>>)).val)
      paragraphs       == split2(extracted_text, <<"\n", "\n">>)
      rendered         == [i \in 1..Len(paragraphs) |-> render_paragraph(paragraphs[i])]
      processed_latex_parts == concat(rendered)
      image_paths      == get(c.image_paths, List(<<>>))
      math_ocr_content == get(c.math_ocr, Dict(<<>>))
  IN  [ exc  |-> "none",
        ret  |-> preamble(margins, filename)
                   \o << <<"", join(<<"\n", "\n">>, processed_latex_parts)>> >>
                   \o images_section(image_paths, math_ocr_content, margins)
                   \o << <<"\n\n\\end{document}">> >>,
        geometry_package_str  |-> geometry_package_str(margins),
        extracted_text        |-> extracted_text,
        paragraphs            |-> paragraphs,
        rendered              |-> rendered,
        processed_latex_parts |-> processed_latex_parts ]

---------------------------------------------------------------------------
(* pdf_parser.extract_content_from_pdf *)

\* a fitz.Rect; the infinite rectangle is kept apart from the finite ones
Rect(x0, y0, x1, y1) == [x0 |-> x0, y0 |-> y0, x1 |-> x1, y1 |-> y1, infinite |-> FALSE]
InfiniteRect == [x0 |-> 0, y0 |-> 0, x1 |-> 0, y1 |-> 0, infinite |-> TRUE]
\* Rect.is_empty, Rect.is_infinite, Rect.width and Rect.height of a rectangle
is_empty(r) == ~r.infinite /\ (r.x0 >= r.x1 \/ r.y0 >= r.y1)
is_infinite(r) == r.infinite
width(r) == IF r.x1 > r.x0 THEN r.x1 - r.x0 ELSE 0
height(r) == IF r.y1 > r.y0 THEN r.y1 - r.y0 ELSE 0

\* a length in centimetres, as a fraction
Cm(num, den) == [num |-> num, den |-> den]
\* pts * points_to_cm, points_to_cm being 2.54 / 72.0
points_to_cm(pts) == Cm(pts * 254, 7200)
\* the margins given when the boxes of the first page cannot be read
default_margins_cm ==
  << <<"left", Cm(2, 1)>>, <<"right", Cm(2, 1)>>, <<"top", Cm(2, 1)>>,
     <<"bottom", Cm(2, 1)>>, <<"width", Cm(17, 1)>>, <<"height", Cm(257, 10)>> >>

\* if margin_pts < 0: margin_pts = 0
not_negative(margin_pts) == IF margin_pts < 0 THEN 0 ELSE margin_pts

\* page_margins_cm taking the content area of an empty crop box from the crop box
page_margins_cm_crop_area(media_box, crop_box) ==
  IF is_empty(crop_box) \/ is_infinite(crop_box)
  THEN << <<"left",   points_to_cm(0)>>,
          <<"right",  points_to_cm(0)>>,
          <<"top",    points_to_cm(0)>>,
          <<"bottom", points_to_cm(0)>>,
          <<"width",  points_to_cm(width(crop_box))>>,
          <<"height", points_to_cm(height(crop_box))>> >>
  ELSE << <<"left",   points_to_cm(not_negative(crop_box.x0 - media_box.x0))>>,
          <<"right",  points_to_cm(not_negative(media_box.x1 - crop_box.x1))>>,
          <<"top",    points_to_cm(not_negative(crop_box.y0 - media_box.y0))>>,
          <<"bottom", points_to_cm(not_negative(media_box.y1 - crop_box.y1))>>,
          <<"width",  points_to_cm(width(crop_box))>>,
          <<"height", points_to_cm(height(crop_box))>> >>

\* page_margins_cm without the test for negative margins
page_margins_cm_unchecked(media_box, crop_box) ==
  IF is_empty(crop_box) \/ is_infinite(crop_box)
  THEN << <<"left",   points_to_cm(0)>>,
          <<"right",  points_to_cm(0)>>,
          <<"top",    points_to_cm(0)>>,
          <<"bottom", points_to_cm(0)>>,
          <<"width",  points_to_cm(width(media_box))>>,
          <<"height", points_to_cm(height(media_box))>> >>
  ELSE << <<"left",   points_to_cm(crop_box.x0 - media_box.x0)>>,
          <<"right",  points_to_cm(media_box.x1 - crop_box.x1)>>,
          <<"top",    points_to_cm(crop_box.y0 - media_box.y0)>>,
          <<"bottom", points_to_cm(media_box.y1 - crop_box.y1)>>,
          <<"width",  points_to_cm(width(crop_box))>>,
          <<"height", points_to_cm(height(crop_box))>> >>

\* the margins of the first page, from its mediabox and its rect
page_margins_cm(media_box, crop_box) ==
  IF is_empty(crop_box) \/ is_infinite(crop_box)
  THEN << <<"left",   points_to_cm(0)>>,
          <<"right",  points_to_cm(0)>>,
          <<"top",    points_to_cm(0)>>,
          <<"bottom", points_to_cm(0)>>,
          <<"width",  points_to_cm(width(media_box))>>,
          <<"height", points_to_cm(height(media_box))>> >>
  ELSE << <<"left",   points_to_cm(not_negative(crop_box.x0 - media_box.x0))>>,
          <<"right",  points_to_cm(not_negative(media_box.x1 - crop_box.x1))>>,
          <<"top",    points_to_cm(not_negative(crop_box.y0 - media_box.y0))>>,
          <<"bottom", points_to_cm(not_negative(media_box.y1 - crop_box.y1))>>,
          <<"width",  points_to_cm(width(crop_box))>>,
          <<"height", points_to_cm(height(crop_box))>> >>

\* margins_cm without the except branch's defaults
margins_cm_no_defaults(file) ==
  IF file.boxes_readable
  THEN Dict(page_margins_cm(file.mediabox, file.rect))
  ELSE None

\* the try block of the margins: reading the boxes may raise
margins_cm(file) ==
  IF file.boxes_readable
  THEN Dict(page_margins_cm(file.mediabox, file.rect))
  ELSE Dict(default_margins_cm)

\* ntpath.basename: what follows the last "/" or "\"
ntpath_basename(p) ==
  LET at == {i \in 1..Len(p) : p[i] \in {"/", "\\"}}
  IN  IF at = {} THEN p ELSE SubSeq(p, SetMax(at) + 1, Len(p))
\* os.path.splitext(name)[0]: the name up to its last dot, leading dots kept
splitext_root(name) ==
  LET at == {i \in 2..Len(name) : name[i] = "." /\ \E j \in 1..(i - 1) : name[j] # "."}
  IN  IF at = {} THEN name ELSE SubSeq(name, 1, SetMax(at) - 1)
\* "".join(c if c.isalnum() else "_" for c in ...) followed by "_images"
pdf_image_dir_name(path) ==
  LET root == splitext_root(ntpath_basename(path))
  IN  [i \in 1..Len(root) |-> IF IsAlpha(root[i]) \/ IsDigit(root[i]) THEN root[i] ELSE "_"]
        \o <<"_", "i", "m", "a", "g", "e", "s">>
image_filename(page_num, img_index, image_ext) ==
  <<"i", "m", "g", "_", "p">> \o str_int(page_num + 1) \o <<"_">>
    \o str_int(img_index + 1) \o <<".">> \o image_ext
\* page_image_paths keeping the path of an image that could not be written
page_image_paths_keeps_unsaved(path, page_num, image_list) ==
  concat([k \in 1..Len(image_list) |->
            IF image_list[k].extracts
            THEN <<pdf_image_dir_name(path) \o <<"/">>
                     \o image_filename(page_num, k - 1, image_list[k].ext)>>
            ELSE <<>>])
\* the relative paths one page adds: an image that cannot be extracted or
\* cannot be written is left out
page_image_paths(path, page_num, image_list) ==
  concat([k \in 1..Len(image_list) |->
            IF image_list[k].extracts /\ image_list[k].saves
            THEN <<pdf_image_dir_name(path) \o <<"/">>
                     \o image_filename(page_num, k - 1, image_list[k].ext)>>
            ELSE <<>>])
\* the page loop from page page_num on: a page that cannot be loaded ends it
RECURSIVE page_loop(_, _, _)
page_loop(path, pages, page_num) ==
  IF page_num >= Len(pages) \/ ~pages[page_num + 1].loads
  THEN [text_content |-> <<>>, image_paths |-> <<>>]
  ELSE LET rest == page_loop(path, pages, page_num + 1)
       IN  [text_content |-> <<pages[page_num + 1].text>> \o rest.text_content,
            image_paths  |-> page_image_paths(path, page_num, pages[page_num + 1].images)
                               \o rest.image_paths]

\* extract_content_from_pdf giving the alternative of line 44, the defaults,
\* for a document without pages
extract_content_from_pdf_defaults_when_empty(path, file) ==
  IF ~file.opens THEN Raise("PDFProcessingError")
  ELSE IF Len(file.pages) = 0
  THEN Return([text |-> <<>>, image_paths |-> <<>>, margins |-> Dict(default_margins_cm)])
  ELSE IF ~file.makedirs THEN Raise("OSError")
  ELSE Return([text        |-> concat(page_loop(path, file.pages, 0).text_content),
               image_paths |-> page_loop(path, file.pages, 0).image_paths,
               margins     |-> margins_cm(file)])

\* extract_content_from_pdf answering a document that cannot be opened with
\* empty content and the defaults
extract_content_from_pdf_open_recovered(path, file) ==
  IF ~file.opens
  THEN Return([text |-> <<>>, image_paths |-> <<>>, margins |-> Dict(default_margins_cm)])
  ELSE IF Len(file.pages) = 0
  THEN Return([text |-> <<>>, image_paths |-> <<>>, margins |-> None])
  ELSE IF ~file.makedirs THEN Raise("OSError")
  ELSE Return([text        |-> concat(page_loop(path, file.pages, 0).text_content),
               image_paths |-> page_loop(path, file.pages, 0).image_paths,
               margins     |-> margins_cm(file)])

extract_content_from_pdf(path, file) ==
  IF ~file.opens THEN Raise("PDFProcessingError")
  ELSE IF Len(file.pages) = 0
  THEN Return([text |-> <<>>, image_paths |-> <<>>, margins |-> None])
  ELSE IF ~file.makedirs THEN Raise("OSError")
  ELSE Return([text        |-> concat(page_loop(path, file.pages, 0).text_content),
               image_paths |-> page_loop(path, file.pages, 0).image_paths,
               margins     |-> margins_cm(file)])

---------------------------------------------------------------------------
(* math_ocr.convert_image_to_latex *)

dummy_latex == <<"$", "\\", "f", "r", "a", "c", "{", "1", "}", "{", "2", "}", " ", "\\", "s", "u", "m", "_", "{", "i", "=", "0", "}", "^", "{", "n", "}", " ", "x", "_", "i", "^", "2", "$">>

\* The function is a placeholder: it neither looks for the file nor runs an
\* OCR engine, and returns dummy_latex for every image_path.
convert_image_to_latex(path, file) == Return(Str(dummy_latex))

---------------------------------------------------------------------------
(* routes.upload_pdf *)

UPLOAD_FOLDER == <<"u", "p", "l", "o", "a", "d", "s">>
OUTPUT_FOLDER == <<"o", "u", "t", "p", "u", "t">>
ALLOWED_EXTENSIONS == {<<"p", "d", "f">>}

os_path_join(a, b) == a \o <<"/">> \o b
\* os.path.dirname of a path whose separators are "/"
dirname(p) ==
  LET at == {i \in 1..Len(p) : p[i] = "/"}
  IN  IF at = {} THEN <<>> ELSE SubSeq(p, 1, SetMax(at) - 1)

\* '.' in filename and filename.rsplit('.', 1)[1].lower() in ALLOWED_EXTENSIONS
allowed_file(filename) ==
  LET at == {i \in 1..Len(filename) : filename[i] = "."}
  IN  at # {} /\ lower(SubSeq(filename, SetMax(at) + 1, Len(filename))) \in ALLOWED_EXTENSIONS

\* s.split(): the maximal runs of characters that are not whitespace
RECURSIVE split_whitespace(_)
split_whitespace(s) ==
  LET t == lstrip(s)
      sp == {i \in 1..Len(t) : IsSpace(t[i])}
  IN  IF t = <<>> THEN <<>>
      ELSE IF sp = {} THEN <<t>>
      ELSE <<SubSeq(t, 1, SetMin(sp) - 1)>>
             \o split_whitespace(SubSeq(t, SetMin(sp), Len(t)))

\* s.strip("._")
RECURSIVE strip_dots_underscores(_)
strip_dots_underscores(s) ==
  IF s = <<>> THEN s
  ELSE IF s[1] \in {".", "_"} THEN strip_dots_underscores(Tail(s))
  ELSE IF s[Len(s)] \in {".", "_"} THEN strip_dots_underscores(SubSeq(s, 1, Len(s) - 1))
  ELSE s

\* werkzeug.utils.secure_filename for a name of ASCII characters: path
\* separators become spaces, the words are joined by "_", every character
\* outside [A-Za-z0-9_.-] is removed, dots and underscores are stripped off
\* both ends
secure_filename(filename) ==
  LET spaced == [i \in 1..Len(filename) |->
                   IF filename[i] = "/" THEN " " ELSE filename[i]]
      joined == join(<<"_">>, split_whitespace(spaced))
  IN  strip_dots_underscores(
        SelectSeq(joined, LAMBDA c : IsAlpha(c) \/ IsDigit(c) \/ c \in {"_", ".", "-"}))

\* "".join(c if c.isalnum() else "_" for c in pdf_filename_no_ext_original)
safe_pdf_filename_no_ext(original_filename) ==
  LET root == splitext_root(original_filename)
  IN  [i \in 1..Len(root) |-> IF IsAlpha(root[i]) \/ IsDigit(root[i]) THEN root[i] ELSE "_"]

images_source_subfolder_name(original_filename) ==
  safe_pdf_filename_no_ext(original_filename) \o <<"_", "i", "m", "a", "g", "e", "s">>
tex_file_path_on_disk(original_filename) ==
  os_path_join(OUTPUT_FOLDER, safe_pdf_filename_no_ext(original_filename) \o <<".", "t", "e", "x">>)
images_source_full_path(original_filename) ==
  os_path_join(UPLOAD_FOLDER, images_source_subfolder_name(original_filename))
images_target_full_path(original_filename) ==
  os_path_join(OUTPUT_FOLDER, images_source_subfolder_name(original_filename))

\* The disk is a set of files, one for a path.  A file holds the document its
\* bytes come from and, for an uploaded PDF, what fitz finds in it, and the
\* requests that wrote it and that read it.
path_exists(d, path) == \E f \in d : f.path = path
file_at(d, path) == CHOOSE f \in d : f.path = path
file_write(d, path, r, document, file_content) ==
  {f \in d : f.path # path}
    \cup {[path     |-> path,
           document |-> document,
           content  |-> file_content,
           writers  |-> (IF path_exists(d, path) THEN file_at(d, path).writers ELSE {}) \cup {r},
           readers  |-> (IF path_exists(d, path) THEN file_at(d, path).readers ELSE {})]}
file_read(d, path, r) ==
  {IF f.path = path THEN [f EXCEPT !.readers = @ \cup {r}] ELSE f : f \in d}
\* the images extract_content_from_pdf writes under the upload folder
RECURSIVE write_images(_, _, _, _)
write_images(d, image_paths, r, document) ==
  IF image_paths = <<>> THEN d
  ELSE write_images(file_write(d, os_path_join(UPLOAD_FOLDER, Head(image_paths)), r, document, <<>>),
                    Tail(image_paths), r, document)
\* shutil.copytree(src, dst, dirs_exist_ok=True): every file of src is read and
\* written under dst, the other files of dst stay
copytree(d, src, dst, r) ==
  LET files  == {f \in d : dirname(f.path) = src}
      target(f) == os_path_join(dst, basename(f.path))
      read   == {IF f \in files THEN [f EXCEPT !.readers = @ \cup {r}] ELSE f : f \in d}
  IN  {f \in read : \A g \in files : f.path # target(g)}
        \cup {[path     |-> target(g),
               document |-> g.document,
               content  |-> g.content,
               writers  |-> (IF path_exists(d, target(g))
                             THEN file_at(d, target(g)).writers ELSE {}) \cup {r},
               readers  |-> (IF path_exists(d, target(g))
                             THEN file_at(d, target(g)).readers ELSE {})] : g \in files}

---------------------------------------------------------------------------
(* The calls: arguments drawn from bounded sets *)

Unset == [type |-> "unset"]

\* the longest run of body tokens of a block handed to is_math_block
MaxBody == 2
\* the longest text handed to the escaper, in characters
MaxText == 2
\* the longest text of several paragraphs, in tokens
MaxParts == 3
\* the most images of a document, and the most OCR results
MaxImages == 2
MaxOcr == 2
\* the most lines of a block of several lines
MaxLines == 16
\* the most pages of a document, and the most images of a page
MaxPages == 2
MaxPageImages == 2

SeqsUpTo(S, n) == UNION {[1..k -> S] : k \in 0..n}

\* a block for is_math_block: optional whitespace, a head (nothing, an opening
\* delimiter, a text command or a math command), body tokens, and after an
\* opening delimiter optionally its closing delimiter and a line break
BlockLeads == {<<>>, <<" ">>}
CommandHeads ==
  {<<"\\">> \o latex_text_commands[k] : k \in 1..Len(latex_text_commands)}
    \cup {<<"\\", "S", "e", "c", "t", "i", "o", "n">>,
          <<"\\", "I", "T", "E", "M">>,
          <<"\\", "p", "a", "r", "t", "i", "a", "l">>,
          <<"\\", "a", "l", "p", "h", "a">>}
BodyTokens ==
  {<<" ">>, <<"\n">>,
   <<"x", " ", "=", " ", "1">>,
   <<"_", "1">>,
   <<"\\", "i", "t", "e", "m", " ", "a">>,
   <<"{", "I", "n", "t", "r", "o", "}">>,
   <<"2">>,
   <<"$", "x", "^", "2", "+", "y", "^", "2", "=", "z", "^", "2", "$">>,
   <<"S", "o", " ", "w", "e", " ", "g", "e", "t", " ", "a", " ", "s", "u", "m", " ", "o", "f", " ", "x", " ", "a", "n", "d", " ", "y", " ", "h", "e", "r", "e", ".">>}

BlockBodies == {concat(b) : b \in SeqsUpTo(BodyTokens, MaxBody)}
Blocks ==
  {lead \o head \o body : lead \in BlockLeads, head \in CommandHeads \cup {<<>>},
                          body \in BlockBodies}
    \cup UNION {{lead \o explicit_env_pairs[k][1] \o body \o tail :
                    lead \in BlockLeads, body \in BlockBodies,
                    tail \in {<<>>, explicit_env_pairs[k][2],
                              explicit_env_pairs[k][2] \o <<"\n">>}} :
                 k \in 1..Len(explicit_env_pairs)}
\* short single-line blocks: identifiers, comparisons and plain words
ShortBlocks ==
  {<<"x">>,
   <<"E">>,
   <<"n">>,
   <<"y", " ", ">", " ", "2">>,
   <<"a", " ", "<", " ", "b">>,
   <<"2", " ", "<", " ", "3">>,
   <<"w", "o", "r", "d">>,
   <<"H", "a", "m", "i", "l", "t", "o", "n", "i", "a", "n">>,
   <<"A", "l", "p", "h", "a">>,
   <<"x", "_", "1">>,
   <<"\\", "a", "l", "p", "h", "a">>}
\* single-line sentences of more than 8 words with inline math, math commands
\* or a few operators
SentenceBlocks ==
  {<<"T", "h", "i", "s", " ", "p", "a", "r", "a", "g", "r", "a", "p", "h", " ", "h", "a", "s", " ", "i", "n", "l", "i", "n", "e", " ", "m", "a", "t", "h", " ", "l", "i", "k", "e", " ", "$", "x", " ", ">", " ", "0", "$", ".">>,
   <<"T", "h", "e", " ", "v", "a", "r", "i", "a", "b", "l", "e", " ", "i", "s", " ", "$", "\\", "a", "l", "p", "h", "a", "$", " ", "a", "n", "d", " ", "t", "h", "e", " ", "s", "u", "m", " ", "i", "s", " ", "$", "\\", "s", "u", "m", " ", "y", "_", "i", "$", ".">>,
   <<"T", "h", "e", "s", "e", " ", "s", "h", "o", "u", "l", "d", " ", "n", "o", "t", " ", "m", "a", "k", "e", " ", "t", "h", "e", " ", "w", "h", "o", "l", "e", " ", "p", "a", "r", "a", "g", "r", "a", "p", "h", " ", "a", " ", "m", "a", "t", "h", " ", "b", "l", "o", "c", "k", ".">>,
   <<"T", "h", "i", "s", " ", "l", "i", "n", "e", " ", "h", "a", "s", " ", "a", " ", ">", " ", "s", "y", "m", "b", "o", "l", " ", "a", "n", "d", " ", "a", " ", "=", " ", "s", "i", "g", "n", " ", "b", "u", "t", " ", "i", "s", " ", "t", "e", "x", "t", ".">>,
   <<"W", "e", " ", "n", "o", "t", "e", " ", "t", "h", "a", "t", " ", "t", "h", "e", " ", "a", "n", "g", "l", "e", " ", "\\", "a", "l", "p", "h", "a", " ", "i", "s", " ", "s", "m", "a", "l", "l", " ", "i", "n", " ", "t", "h", "i", "s", " ", "c", "a", "s", "e", " ", "h", "e", "r", "e", ".">>}
ClassifyInputs == {None} \cup {Str(b) : b \in Blocks \cup ShortBlocks \cup SentenceBlocks}

\* blocks of several lines: some math lines, some lines of one other kind and
\* possibly a closing math line, MaxLines lines at most
MathLines ==
  {<<"x", " ", "=", " ", "1">>,
   <<"x", " ", "=", " ", "1", " ", "a", " ", "b", " ", "c", " ", "d", " ", "e", " ", "f">>,
   <<"H", "a", "m", "i", "l", "t", "o", "n", "i", "a", "n", " ", "=", " ", "1", ".">>}
OtherLines ==
  {<<"f", "o", "o">>,
   <<" ">>,
   <<"\\", "a", "l", "p", "h", "a">>,
   <<"a", "a", " ", "b", "b", " ", "c", "c", " ", "d", "d", " ", "e", "e", " ", "f", "f", " ", "g", "g", " ", "h", "h">>}
Repeat(line, n) == [i \in 1..n |-> line]
LineBlocks ==
  {join(<<"\n">>, Repeat(m, a) \o Repeat(o, b) \o Repeat(m, c)) :
     m \in MathLines, o \in OtherLines,
     a \in 0..MaxLines, b \in 0..MaxLines, c \in 0..1}

\* the characters of a text handed to the escaper
EscapeAlphabet ==
  {replacements[k][1] : k \in 1..Len(replacements)} \cup {"a", " ", "\n"}
\* the tokens of a text of several paragraphs
PartTokens ==
  {<<" ">>, <<"\n">>, <<"\n", "\n">>, <<"x", " ", "=", " ", "1">>, <<"T", "e", "x", "t", ".">>}

\* the paragraphs of a text with display math: delimited blocks, equation
\* lines with characters the escaper rewrites, prose and blank paragraphs
MathParagraphs ==
  {<<"$", "$", "\n", "E", " ", "=", " ", "m", "c", "^", "2", "\n", "$", "$">>,
   <<"\\", "[", " ", "x", " ", "\\", "]">>,
   <<" ", "x", " ", "=", " ", "1", "\n", "y", " ", "=", " ", "2">>,
   <<"f", "(", "x", ")", " ", "=", " ", "a", "^", "2", "\n", "E", "_", "0", " ", "=", " ", "m", "_", "0">>,
   <<"C", "o", "s", "t", " ", "$", "5", ".">>,
   <<"a", "\n", "b">>,
   <<" ">>,
   <<>>}

ImagePaths ==
  {<<"d", "/", "a", ".", "p", "n", "g">>,
   <<"d", "\\", "b", "_", "1", ".", "p", "n", "g">>,
   <<"e", "/", "a", ".", "p", "n", "g">>}
OcrValues ==
  {None, Str(<<>>), Str(<<"$", "$", "E", "=", "m", "c", "^", "2", "$", "$">>), Str(<<"x", "^", "2">>)}
\* the dicts of OCR results: up to MaxOcr entries, keys distinct, in any order
OcrDicts ==
  {Dict(d) : d \in {e \in SeqsUpTo(ImagePaths \X OcrValues, MaxOcr) :
                       \A i, j \in 1..Len(e) : i # j => e[i][1] # e[j][1]}}
MarginValues ==
  {Num(2540), Num(1903), Num(0 - 1000), Str(<<"2", ".", "5", "4">>), Str(<<"a", "b", "c">>), None}
WidthValues == {Num(15920), Str(<<"a", "b", "c">>)}
\* the dicts with some of the keys of the sequence keys, values in V
RECURSIVE DictItems(_, _)
DictItems(keys, V) ==
  IF keys = <<>> THEN {<<>>}
  ELSE LET rest == DictItems(Tail(keys), V)
       IN  rest \cup {<< <<Head(keys), v>> >> \o r : v \in V, r \in rest}
\* extract_content_from_pdf: the documents
PdfPaths == {<<"u", "p", "/", "m", "y", " ", "d", "o", "c", ".", "v", "2", ".", "p", "d", "f">>}
MediaBoxes == {Rect(0, 0, 595, 842), Rect(10, 20, 595, 842), Rect(0, 0, 0, 0)}
CropBoxes ==
  {Rect(x0, y0, x1, y1) : x0 \in {0 - 10, 0, 72}, y0 \in {0 - 10, 10, 72},
                          x1 \in {0, 523, 605}, y1 \in {0, 770, 852}}
    \cup {InfiniteRect}
PlainPage == [text |-> <<"a">>, images |-> <<>>, loads |-> TRUE]
\* an image that is extracted and written, one that cannot be extracted and
\* one that cannot be written
ImageOutcomes ==
  {[ext |-> <<"p", "n", "g">>, extracts |-> TRUE, saves |-> TRUE],
   [ext |-> <<"p", "n", "g">>, extracts |-> FALSE, saves |-> TRUE],
   [ext |-> <<"j", "p", "e", "g">>, extracts |-> TRUE, saves |-> FALSE]}
\* pages with images, a page of text alone and a page that cannot be loaded
Pages ==
  {[text |-> <<"a">>, images |-> i, loads |-> TRUE] :
     i \in SeqsUpTo(ImageOutcomes, MaxPageImages)}
    \cup {[text |-> <<"b", "\n">>, images |-> <<>>, loads |-> TRUE],
          [text |-> <<"b", "\n">>, images |-> <<>>, loads |-> FALSE]}
PdfFile(opens, pages, readable, media_box, crop_box, makedirs) ==
  [opens |-> opens, pages |-> pages, boxes_readable |-> readable,
   mediabox |-> media_box, rect |-> crop_box, makedirs |-> makedirs]

\* convert_image_to_latex: the image paths, and the text an OCR engine reads
\* off an image, MaxOcrText pieces at most
MaxOcrText == 2
OcrPieces ==
  {<<"S", "o", "m", "e", " ", "t", "e", "x", "t", " ", "b", "e", "f", "o", "r", "e", " ">>,
   <<"$", "$", "\\", "s", "u", "m", " ", "x", "_", "i", "$", "$">>,
   <<"$", "x", "^", "2", "+", "y", "^", "2", "$">>,
   <<" ", "s", "o", "m", "e", " ", "t", "e", "x", "t", " ", "a", "f", "t", "e", "r">>,
   <<"J", "u", "s", "t", " ", "s", "o", "m", "e", " ", "r", "e", "g", "u", "l", "a", "r", " ", "t", "e", "x", "t", " ", "w", "i", "t", "h", "o", "u", "t", " ", "m", "a", "t", "h", ".">>}
OcrOutputs == {concat(o) : o \in SeqsUpTo(OcrPieces, MaxOcrText)}
ImageFile(exists, ocr_output) == [exists |-> exists, ocr_output |-> ocr_output]

\* upload_pdf: the two requests, the names the files are uploaded under and
\* the uploaded documents: a page of text, a page with one image, and a file
\* fitz cannot open
Requests == {1, 2}
UploadNames ==
  {<<"a", "-", "b", ".", "p", "d", "f">>,
   <<"a", "_", "b", ".", "p", "d", "f">>,
   <<"a", " ", "b", ".", "p", "d", "f">>,
   <<"c", ".", "P", "D", "F">>,
   <<"n", "o", "t", "e", "s", ".", "t", "x", "t">>}
ImagePage(ext) ==
  [text |-> <<"a">>, images |-> <<[ext |-> ext, extracts |-> TRUE, saves |-> TRUE]>>,
   loads |-> TRUE]
UploadFiles ==
  {PdfFile(TRUE, <<page>>, TRUE, Rect(0, 0, 595, 842), Rect(72, 72, 523, 770), TRUE) :
     page \in {PlainPage, ImagePage(<<"p", "n", "g">>), ImagePage(<<"j", "p", "e", "g">>)}}
    \cup {PdfFile(FALSE, <<>>, TRUE, Rect(0, 0, 595, 842), Rect(72, 72, 523, 770), TRUE)}

Filenames == {<<"m", "y", "_", "d", "o", "c">>}


OnlyText(t) ==
  [text |-> Str(t), image_paths |-> Absent, margins |-> Absent, math_ocr |-> Absent]

InitCall(f, block, c, name) ==
  /\ pc = "call"
  /\ fn = f
  /\ text_block = block
  /\ result = Unset
  /\ content = c
  /\ pdf_filename_no_ext = name
  /\ doc = Unset
  /\ pdf_path = <<>>
  /\ pdf_file = Unset
  /\ extracted = Unset
  /\ image_path = <<>>
  /\ image_file = Unset
  /\ latex_formula = Unset
  /\ requests = <<>>
  /\ disk = {}

InitClassify ==
  \E b \in ClassifyInputs : InitCall("is_math_block", b, Unset, <<>>)

InitLines ==
  \E b \in {l \in LineBlocks : len_lines(l) <= MaxLines} :
     InitCall("is_math_block", Str(b), Unset, <<>>)

InitEscape ==
  \E t \in SeqsUpTo(EscapeAlphabet, MaxText), name \in Filenames :
     InitCall("generate_latex_document", Unset, OnlyText(t), name)

InitParts ==
  \E p \in SeqsUpTo(PartTokens, MaxParts), name \in Filenames :
     InitCall("generate_latex_document", Unset, OnlyText(concat(p)), name)

InitMath ==
  \E p \in SeqsUpTo(MathParagraphs, MaxParts), name \in Filenames :
     InitCall("generate_latex_document", Unset, OnlyText(join(<<"\n", "\n">>, p)), name)

InitImages ==
  \E paths \in SeqsUpTo(ImagePaths, MaxImages), ocr \in OcrDicts \cup {Absent},
     m \in {Absent, Dict(<< <<"width", Num(15920)>> >>)}, name \in Filenames :
     InitCall("generate_latex_document", Unset,
              [text |-> Str(<<"a">>), image_paths |-> List(paths), margins |-> m,
               math_ocr |-> ocr],
              name)

InitMargins ==
  \E m \in {Absent, None}
             \cup {Dict(f \o w) : f \in DictItems(margin_keys, MarginValues),
                                  w \in DictItems(<<"width">>, WidthValues)},
     paths \in {Absent, List(<<CHOOSE p \in ImagePaths : TRUE>>)}, name \in Filenames :
     InitCall("generate_latex_document", Unset,
              [text |-> Str(<<"a">>), image_paths |-> paths, margins |-> m,
               math_ocr |-> Absent],
              name)

InitExtract(file) ==
  /\ pc = "call"
  /\ fn = "extract_content_from_pdf"
  /\ text_block = Unset
  /\ result = Unset
  /\ content = Unset
  /\ pdf_filename_no_ext = <<>>
  /\ doc = Unset
  /\ pdf_path \in PdfPaths
  /\ pdf_file = file
  /\ extracted = Unset
  /\ image_path = <<>>
  /\ image_file = Unset
  /\ latex_formula = Unset
  /\ requests = <<>>
  /\ disk = {}

\* documents of plain pages, with every first page and every failure
InitBoxes ==
  \E opens, readable, makedirs \in BOOLEAN, n \in 0..MaxPages,
     media_box \in MediaBoxes, crop_box \in CropBoxes :
     InitExtract(PdfFile(opens, Repeat(PlainPage, n), readable, media_box, crop_box, makedirs))

\* documents of pages with images, with one first page
InitPages ==
  \E pages \in SeqsUpTo(Pages, MaxPages) :
     InitExtract(PdfFile(TRUE, pages, TRUE, Rect(0, 0, 595, 842), Rect(72, 72, 523, 770), TRUE))

InitOcr ==
  /\ pc = "call"
  /\ fn = "convert_image_to_latex"
  /\ text_block = Unset
  /\ result = Unset
  /\ content = Unset
  /\ pdf_filename_no_ext = <<>>
  /\ doc = Unset
  /\ pdf_path = <<>>
  /\ pdf_file = Unset
  /\ extracted = Unset
  /\ image_path \in ImagePaths
  /\ image_file \in {ImageFile(e, o) : e \in BOOLEAN, o \in OcrOutputs}
  /\ latex_formula = Unset
  /\ requests = <<>>
  /\ disk = {}

\* two requests have arrived, each with a file under a name; nothing is on
\* the disk yet
InitUpload ==
  /\ pc = "serve"
  /\ fn = "upload_pdf"
  /\ text_block = Unset
  /\ result = Unset
  /\ content = Unset
  /\ pdf_filename_no_ext = <<>>
  /\ doc = Unset
  /\ pdf_path = <<>>
  /\ pdf_file = Unset
  /\ extracted = Unset
  /\ image_path = <<>>
  /\ image_file = Unset
  /\ latex_formula = Unset
  /\ requests \in [Requests -> {[pc |-> "start", filename |-> n, file |-> f,
                                 extracted_content |-> Unset] :
                                  n \in UploadNames, f \in UploadFiles}]
  /\ disk = {}

Init ==
  \/ InitClassify \/ InitLines \/ InitBoxes \/ InitPages
  \/ InitEscape \/ InitParts \/ InitMath \/ InitImages \/ InitMargins
  \/ InitOcr \/ InitUpload

CallIsMathBlock ==
  /\ pc = "call"
  /\ fn = "is_math_block"
  /\ result' = is_math_block(text_block)
  /\ pc' = "done"
  /\ UNCHANGED <<fn, text_block, content, pdf_filename_no_ext, doc,
                 pdf_path, pdf_file, extracted,
                 image_path, image_file, latex_formula, requests, disk>>

CallGenerateLatexDocument ==
  /\ pc = "call"
  /\ fn = "generate_latex_document"
  /\ doc' = generate_latex_document(content, pdf_filename_no_ext)
  /\ pc' = "done"
  /\ UNCHANGED <<fn, text_block, result, content, pdf_filename_no_ext,
                 pdf_path, pdf_file, extracted,
                 image_path, image_file, latex_formula, requests, disk>>

CallExtractContentFromPdf ==
  /\ pc = "call"
  /\ fn = "extract_content_from_pdf"
  /\ extracted' = extract_content_from_pdf(pdf_path, pdf_file)
  /\ pc' = "done"
  /\ UNCHANGED <<fn, text_block, result, content, pdf_filename_no_ext, doc,
                 pdf_path, pdf_file,
                 image_path, image_file, latex_formula, requests, disk>>

CallConvertImageToLatex ==
  /\ pc = "call"
  /\ fn = "convert_image_to_latex"
  /\ latex_formula' = convert_image_to_latex(image_path, image_file)
  /\ pc' = "done"
  /\ UNCHANGED <<fn, text_block, result, content, pdf_filename_no_ext, doc,
                 pdf_path, pdf_file, extracted, image_path, image_file,
                 requests, disk>>

UploadUnchanged ==
  UNCHANGED <<pc, fn, text_block, result, content, pdf_filename_no_ext, doc,
              pdf_path, pdf_file, extracted, image_path, image_file, latex_formula>>

\* the file is not a PDF by its name: the request ends with a message
RejectUpload(r) ==
  /\ fn = "upload_pdf"
  /\ requests[r].pc = "start"
  /\ ~allowed_file(requests[r].filename)
  /\ requests' = [requests EXCEPT ![r].pc = "done"]
  /\ UNCHANGED disk
  /\ UploadUnchanged

\* file.save(pdf_path)
SaveUpload(r) ==
  /\ fn = "upload_pdf"
  /\ requests[r].pc = "start"
  /\ allowed_file(requests[r].filename)
  /\ LET original_filename == secure_filename(requests[r].filename)
     IN  disk' = file_write(disk, os_path_join(UPLOAD_FOLDER, original_filename), r, r,
                            requests[r].file)
  /\ requests' = [requests EXCEPT ![r].pc = "extract"]
  /\ UploadUnchanged

\* extract_content_from_pdf(pdf_path, UPLOAD_FOLDER): the file at pdf_path is
\* read, and the images are written under the upload folder
ExtractContent(r) ==
  /\ fn = "upload_pdf"
  /\ requests[r].pc = "extract"
  /\ LET original_filename == secure_filename(requests[r].filename)
         path   == os_path_join(UPLOAD_FOLDER, original_filename)
         saved  == file_at(disk, path)
         out    == extract_content_from_pdf(path, saved.content)
     IN  /\ disk' = IF out.exc = "none"
                    THEN write_images(file_read(disk, path, r), out.ret.image_paths, r,
                                      saved.document)
                    ELSE file_read(disk, path, r)
         /\ requests' =
              [requests EXCEPT
                 ![r].pc = IF out.exc = "none" THEN "write_tex" ELSE "done",
                 ![r].extracted_content =
                    [exc |-> out.exc,
                     ret |-> [document    |-> saved.document,
                              image_paths |-> IF out.exc = "none"
                                              THEN out.ret.image_paths ELSE <<>>]]]
  /\ UploadUnchanged

\* generate_latex_document and the write of the .tex file
WriteTex(r) ==
  /\ fn = "upload_pdf"
  /\ requests[r].pc = "write_tex"
  /\ LET original_filename == secure_filename(requests[r].filename)
     IN  disk' = file_write(disk, tex_file_path_on_disk(original_filename), r,
                            requests[r].extracted_content.ret.document, <<>>)
  /\ requests' = [requests EXCEPT
                    ![r].pc = IF requests[r].extracted_content.ret.image_paths # <<>>
                              THEN "copy_images" ELSE "done"]
  /\ UploadUnchanged

\* the copy of the image directory next to the .tex file
CopyImages(r) ==
  /\ fn = "upload_pdf"
  /\ requests[r].pc = "copy_images"
  /\ LET original_filename == secure_filename(requests[r].filename)
     IN  disk' = copytree(disk, images_source_full_path(original_filename),
                          images_target_full_path(original_filename), r)
  /\ requests' = [requests EXCEPT ![r].pc = "done"]
  /\ UploadUnchanged

UploadPdf(r) ==
  RejectUpload(r) \/ SaveUpload(r) \/ ExtractContent(r) \/ WriteTex(r) \/ CopyImages(r)

Next ==
  \/ CallIsMathBlock
  \/ CallGenerateLatexDocument
  \/ CallExtractContentFromPdf
  \/ CallConvertImageToLatex
  \/ \E r \in Requests : UploadPdf(r)

Spec == Init /\ [][Next]_vars
SpecClassify == InitClassify /\ [][CallIsMathBlock]_vars
SpecLines == InitLines /\ [][CallIsMathBlock]_vars
SpecBoxes == InitBoxes /\ [][CallExtractContentFromPdf]_vars
SpecPages == InitPages /\ [][CallExtractContentFromPdf]_vars
SpecExtract == (InitBoxes \/ InitPages) /\ [][CallExtractContentFromPdf]_vars
SpecEscape == InitEscape /\ [][CallGenerateLatexDocument]_vars
SpecParts == InitParts /\ [][CallGenerateLatexDocument]_vars
SpecBody == (InitParts \/ InitMath) /\ [][CallGenerateLatexDocument]_vars
SpecOcr == InitOcr /\ [][CallConvertImageToLatex]_vars
SpecUpload == InitUpload /\ [][\E r \in Requests : UploadPdf(r)]_vars
SpecImages == InitImages /\ [][CallGenerateLatexDocument]_vars
SpecMargins == InitMargins /\ [][CallGenerateLatexDocument]_vars

(***************************************************************************)
(* Properties of is_math_block                                             *)
(***************************************************************************)
Classified == pc = "done" /\ fn = "is_math_block"
Generated == pc = "done" /\ fn = "generate_latex_document"

C1_Environments ==
  {<<"e", "q", "u", "a", "t", "i", "o", "n">>,
   <<"e", "q", "u", "a", "t", "i", "o", "n", "*">>,
   <<"a", "l", "i", "g", "n">>,
   <<"a", "l", "i", "g", "n", "*">>,
   <<"g", "a", "t", "h", "e", "r">>,
   <<"g", "a", "t", "h", "e", "r", "*">>,
   <<"m", "u", "l", "t", "l", "i", "n", "e">>,
   <<"m", "u", "l", "t", "l", "i", "n", "e", "*">>,
   <<"d", "i", "s", "p", "l", "a", "y", "m", "a", "t", "h">>}
C1_Delimiters ==
  {<<<<"$", "$">>, <<"$", "$">>>>, <<<<"\\", "[">>, <<"\\", "]">>>>}
    \cup {<<<<"\\", "b", "e", "g", "i", "n", "{">> \o e \o <<"}">>, <<"\\", "e", "n", "d", "{">> \o e \o <<"}">>>> : e \in C1_Environments}
C1_Delimited(b) ==
  \E d \in C1_Delimiters : startswith(strip(b), d[1]) /\ endswith(strip(b), d[2])

\* C1: a block that, once trimmed, starts with an opening delimiter and ends
\* with the matching closing delimiter is classified Math, whatever lies between.
C1_DelimitedIsMath ==
  (Classified /\ text_block.type = "str" /\ C1_Delimited(text_block.val))
    => result = Return(TRUE)

\* a delimited block holding a line that starts with a text command was
\* classified Math
C1_Witness ==
  /\ Classified
  /\ text_block.type = "str"
  /\ C1_Delimited(text_block.val)
  /\ has_text_command_line(split(strip(text_block.val), "\n"))
  /\ result = Return(TRUE)

C2_TextCommands ==
  {<<"s", "e", "c", "t", "i", "o", "n">>,
   <<"s", "u", "b", "s", "e", "c", "t", "i", "o", "n">>,
   <<"p", "a", "r", "a", "g", "r", "a", "p", "h">>,
   <<"c", "a", "p", "t", "i", "o", "n">>,
   <<"l", "a", "b", "e", "l">>,
   <<"r", "e", "f">>,
   <<"t", "e", "x", "t", "i", "t">>,
   <<"t", "e", "x", "t", "b", "f">>,
   <<"t", "e", "x", "t", "t", "t">>,
   <<"i", "t", "e", "m">>,
   <<"f", "o", "o", "t", "n", "o", "t", "e">>,
   <<"c", "h", "a", "p", "t", "e", "r">>,
   <<"p", "a", "r", "t">>,
   <<"e", "m", "p", "h">>}
C2_FirstLine(b) == lstrip(split(b, "\n")[1])
\* the first line starts with a backslash and the letters of a text command
C2_StartsWithCommand(b) ==
  \E c \in C2_TextCommands : startswith(lower(C2_FirstLine(b)), <<"\\">> \o c)
\* ... and the command name ends there: the line ends, or the next character
\* is not a letter, a digit or an underscore
C2_StartsWithWholeCommand(b) ==
  \E c \in C2_TextCommands :
     /\ startswith(lower(C2_FirstLine(b)), <<"\\">> \o c)
     /\ \/ Len(C2_FirstLine(b)) = Len(c) + 1
        \/ ~IsWordChar(C2_FirstLine(b)[Len(c) + 2])

\* C2 as stated: a block whose first line starts with a backslash followed by
\* the name of a text command is classified Prose.
C2_CommandLineIsProse ==
  (Classified /\ text_block.type = "str" /\ C2_StartsWithCommand(text_block.val))
    => result = Return(FALSE)

\* C2: a block whose first line starts with a backslash followed by a text
\* command whose name ends at a non-word character or at the end of the line
\* is classified Prose, however many equation-shaped lines follow.
C2_WholeCommandLineIsProse ==
  (Classified /\ text_block.type = "str" /\ C2_StartsWithWholeCommand(text_block.val))
    => result = Return(FALSE)

\* a block with a text command on its first line and an equation-shaped line
\* after it was classified Prose
C2_Witness ==
  /\ Classified
  /\ text_block.type = "str"
  /\ C2_StartsWithWholeCommand(text_block.val)
  /\ \E i \in 2..Len(split(text_block.val, "\n")) :
        equation_pattern(split(text_block.val, "\n")[i])
  /\ result = Return(FALSE)

\* C3 as stated: is_math_block raises for no input, and an input that is not a
\* string is classified Prose.
C3_NeverRaises ==
  Classified =>
    /\ result.exc = "none"
    /\ text_block.type # "str" => result = Return(FALSE)

C4_Blank(s) == \A i \in 1..Len(s) : IsSpace(s[i])
C4_Wrapped(part) == startswith(part, <<"$", "$">>)

\* C4: an empty or whitespace-only block is classified Prose, and no part the
\* document generator emits for such a paragraph is wrapped in $$ ... $$.
C4_BlankIsProse ==
  /\ (Classified /\ text_block.type = "str" /\ C4_Blank(text_block.val))
       => result = Return(FALSE)
  /\ Generated =>
       \A i \in 1..Len(doc.paragraphs) :
          C4_Blank(doc.paragraphs[i]) =>
            \A j \in 1..Len(doc.rendered[i]) : ~C4_Wrapped(doc.rendered[i][j])

\* a document with a whitespace-only paragraph next to a paragraph that was
\* wrapped as display math
C4_Witness ==
  /\ Generated
  /\ \E i, k \in 1..Len(doc.paragraphs) :
        /\ doc.paragraphs[i] # <<>>
        /\ C4_Blank(doc.paragraphs[i])
        /\ doc.rendered[i] = <<doc.paragraphs[i]>>
        /\ doc.rendered[k] # <<>>
        /\ C4_Wrapped(doc.rendered[k][1])

(***************************************************************************)
(* Properties of generate_latex_document                                   *)
(***************************************************************************)
C6_Special == {"\\", "{", "}", "_", "^", "~", "&", "$", "#", "%"}
C6_EscapeSequences ==
  {<<"\\", "t", "e", "x", "t", "b", "a", "c", "k", "s", "l", "a", "s", "h">>,
   <<"\\", "{">>,
   <<"\\", "}">>,
   <<"\\", "_">>,
   <<"\\", "t", "e", "x", "t", "a", "s", "c", "i", "i", "c", "i", "r", "c", "u", "m", "{", "}">>,
   <<"\\", "t", "e", "x", "t", "a", "s", "c", "i", "i", "t", "i", "l", "d", "e", "{", "}">>,
   <<"\\", "&">>,
   <<"\\", "$">>,
   <<"\\", "#">>,
   <<"\\", "%">>,
   <<"\\", "d", "o", "t", "s", "{", "}">>}
\* t is a run of characters that are not special and of escape sequences
RECURSIVE C6_WellEscaped(_)
C6_WellEscaped(t) ==
  \/ t = <<>>
  \/ t[1] \notin C6_Special /\ C6_WellEscaped(Tail(t))
  \/ \E e \in C6_EscapeSequences :
        startswith(t, e) /\ C6_WellEscaped(SubSeq(t, Len(e) + 1, Len(t)))

\* C6: in the escaped text every occurrence of a special character belongs to
\* an escape sequence; no special character stands raw.
C6_NoRawSpecial == Generated => C6_WellEscaped(doc.extracted_text)

\* a text of a backslash and another special character was escaped
C6_Witness ==
  /\ Generated
  /\ Len(content.text.val) = 2
  /\ content.text.val[1] = "\\"
  /\ content.text.val[2] \in C6_Special \ {"\\"}
  /\ C6_WellEscaped(doc.extracted_text)

C7_Entry(c) ==
  IF \E k \in 1..Len(replacements) : replacements[k][1] = c
  THEN replacements[CHOOSE k \in 1..Len(replacements) : replacements[k][1] = c][2]
  ELSE <<c>>

\* C7 as stated: every character of the text ends up as exactly its entry of
\* the substitution table, a backslash as \textbackslash{} with its braces
\* unescaped, and the other characters unchanged.
C7_EachCharIsItsEntry ==
  Generated =>
    doc.extracted_text =
      concat([i \in 1..Len(content.text.val) |-> C7_Entry(content.text.val[i])])

\* the entries of the images section of a document, in the order they stand,
\* each a formula (two lines) or a figure (five lines)
RECURSIVE section_entries(_)
section_entries(lines) ==
  IF lines = <<>> THEN <<>>
  ELSE IF lines[1][1] = "\n% Image "
       THEN <<[kind |-> "formula", caption |-> lines[1][2], formula |-> lines[2][2]]>>
              \o section_entries(SubSeq(lines, 3, Len(lines)))
       ELSE <<[kind |-> "figure", caption |-> lines[4][2], path |-> lines[3][4]]>>
              \o section_entries(SubSeq(lines, 6, Len(lines)))
\* the document's lines are the preamble, the body, the section's two heading
\* lines, the entries and the closing line
FirstEntryLine == Len(preamble(None, <<>>)) + 4
document_entries(d) ==
  IF Len(d.ret) < FirstEntryLine THEN <<>>
  ELSE section_entries(SubSeq(d.ret, FirstEntryLine, Len(d.ret) - 1))
given_image_paths == get(content.image_paths, List(<<>>)).val
given_math_ocr == get(content.math_ocr, Dict(<<>>))
forward_slashes(p) == replace(p, "\\", <<"/">>)
caption_name(p) == replace(basename(forward_slashes(p)), "_", <<"\\", "_">>)

\* C8: the images section has one entry per element of image_paths, in the
\* order of image_paths, whatever the keys of math_ocr and their order.
C8_EntriesInImagePathsOrder ==
  Generated =>
    /\ Len(document_entries(doc)) = Len(given_image_paths)
    /\ \A i \in 1..Len(given_image_paths) :
          LET e == document_entries(doc)[i]
          IN  /\ e.caption = caption_name(given_image_paths[i])
              /\ e.kind = "figure" => e.path = forward_slashes(given_image_paths[i])

\* two images of different names whose OCR results were given in the opposite
\* order, one of them a formula and the other a figure
C8_Witness ==
  /\ Generated
  /\ Len(given_image_paths) = 2
  /\ caption_name(given_image_paths[1]) # caption_name(given_image_paths[2])
  /\ Len(given_math_ocr.val) = 2
  /\ given_math_ocr.val[1][1] = given_image_paths[2]
  /\ given_math_ocr.val[2][1] = given_image_paths[1]
  /\ document_entries(doc)[1].kind = "figure"
  /\ document_entries(doc)[2].kind = "formula"

\* the formula math_ocr holds for an image, or None when it holds none
C9_Formula(p) ==
  IF \E j \in 1..Len(given_math_ocr.val) :
        /\ given_math_ocr.val[j][1] = p
        /\ given_math_ocr.val[j][2].type = "str"
        /\ given_math_ocr.val[j][2].val # <<>>
  THEN given_math_ocr.val[CHOOSE j \in 1..Len(given_math_ocr.val) :
                            given_math_ocr.val[j][1] = p][2]
  ELSE None

\* C9: an image with a non-empty formula in math_ocr gets a comment naming it
\* followed at once by the formula verbatim and no figure; an image whose
\* formula is absent, None or empty gets a figure; every image gets an entry,
\* decided by its own formula alone.
C9_FormulaOrFigure ==
  Generated =>
    /\ Len(document_entries(doc)) = Len(given_image_paths)
    /\ \A i \in 1..Len(given_image_paths) :
          LET e == document_entries(doc)[i]
              f == C9_Formula(given_image_paths[i])
          IN  IF f.type = "str"
              THEN e = [kind |-> "formula",
                        caption |-> caption_name(given_image_paths[i]),
                        formula |-> f.val]
              ELSE e = [kind |-> "figure",
                        caption |-> caption_name(given_image_paths[i]),
                        path |-> forward_slashes(given_image_paths[i])]

\* an image with a formula ahead of an image whose formula is the empty string
C9_Witness ==
  /\ Generated
  /\ Len(given_image_paths) = 2
  /\ C9_Formula(given_image_paths[1]).type = "str"
  /\ has_key(given_math_ocr, given_image_paths[2])
  /\ item(given_math_ocr, given_image_paths[2]) = Str(<<>>)
  /\ document_entries(doc)[1].kind = "formula"
  /\ document_entries(doc)[2].kind = "figure"

given_margins == get(content.margins, None)
\* the margin the caller gave at key k, in thousandths of a centimetre, when it
\* is a number or a decimal numeral
C10_Numeric(v) ==
  \/ v.type = "float"
  \/ v.type = "str" /\ v.val = <<"2", ".", "5", "4">>
C10_Thousandths(v) == IF v.type = "float" THEN v.val ELSE 2540
C10_AllFourNumeric ==
  /\ given_margins.type = "dict"
  /\ \A i \in 1..4 :
        /\ has_key(given_margins, margin_keys[i])
        /\ C10_Numeric(item(given_margins, margin_keys[i]))
\* the value a numeral with two decimals stands for, in hundredths
C10_Hundredths(s) ==
  100 * digits_value(SubSeq(s, 1, Len(s) - 3)) + digits_value(SubSeq(s, Len(s) - 1, Len(s)))
C10_TwoDecimals(s) ==
  /\ Len(s) >= 4
  /\ s[Len(s) - 2] = "."
  /\ \A j \in (1..Len(s)) \ {Len(s) - 2} : s[j] \in Range(DigitChars)
C10_Abs(x) == IF x < 0 THEN 0 - x ELSE x
C10_Max0(x) == IF x < 0 THEN 0 ELSE x
\* the geometry line names left, right, top and bottom, in this order, and
\* nothing else but the fixed footer options
C10_FourSided(g) ==
  /\ Len(g) = 13
  /\ <<g[1], g[3], g[4], g[6], g[7], g[9], g[10], g[12], g[13]>>
       = <<"\\usepackage[left=", "cm,", "right=", "cm,", "top=", "cm,", "bottom=", "cm,",
           "includefoot, headheight=13.6pt]{geometry}">>
  /\ \A i \in 1..4 : C10_TwoDecimals(g[3 * i - 1])
C10_IsDefault(g) == Len(g) = 1 /\ g[1] = "\\usepackage[a4paper, margin=2cm]{geometry}"

\* C10 as stated: with left, right, top and bottom all numbers the geometry
\* line carries exactly these four values to two decimals; otherwise it is the
\* default margin=2cm line; the document is produced without an exception.
C10_CarriesGivenValues ==
  Generated =>
    /\ doc.exc = "none"
    /\ doc.ret[5] = doc.geometry_package_str
    /\ IF C10_AllFourNumeric
       THEN /\ C10_FourSided(doc.geometry_package_str)
            /\ \A i \in 1..4 :
                  C10_Abs(10 * C10_Hundredths(doc.geometry_package_str[3 * i - 1])
                            - C10_Thousandths(item(given_margins, margin_keys[i]))) <= 5
       ELSE C10_IsDefault(doc.geometry_package_str)

\* C10: with left, right, top and bottom all numbers the geometry line carries
\* each value, a negative one raised to zero, to two decimals; otherwise it is
\* the default margin=2cm line; the document is produced without an exception.
C10_CarriesClampedValues ==
  Generated =>
    /\ doc.exc = "none"
    /\ doc.ret[5] = doc.geometry_package_str
    /\ IF C10_AllFourNumeric
       THEN /\ C10_FourSided(doc.geometry_package_str)
            /\ \A i \in 1..4 :
                  C10_Abs(10 * C10_Hundredths(doc.geometry_package_str[3 * i - 1])
                            - C10_Max0(C10_Thousandths(item(given_margins, margin_keys[i])))) <= 5
       ELSE C10_IsDefault(doc.geometry_package_str)

\* four numeric margins, the left one negative and the right one positive,
\* gave a four-sided geometry line
C10_Witness ==
  /\ Generated
  /\ C10_AllFourNumeric
  /\ item(given_margins, "left").type = "float"
  /\ item(given_margins, "left").val < 0
  /\ item(given_margins, "right").type = "float"
  /\ item(given_margins, "right").val > 0
  /\ C10_FourSided(doc.geometry_package_str)

C11_Operand(c) == IsAlpha(c) \/ IsDigit(c)
\* a comparison of two one-character operands, such as y > 2
C11_Comparison(b) ==
  /\ Len(b) = 5
  /\ C11_Operand(b[1]) /\ b[2] = " " /\ b[3] \in {"<", ">"} /\ b[4] = " "
  /\ C11_Operand(b[5])

\* C11 as stated: a block that is a single letter is Math, a block that is a
\* short comparison of two operands is Math, and a block that is a plain word
\* of more than 3 letters is Prose.
C11_ShortExpressionsAreMath ==
  (Classified /\ text_block.type = "str") =>
    /\ (Len(text_block.val) = 1 /\ IsAlpha(text_block.val[1])) => result = Return(TRUE)
    /\ C11_Comparison(text_block.val) => result = Return(TRUE)
    /\ (Len(text_block.val) > 3 /\ isalpha(text_block.val)) => result = Return(FALSE)

(***************************************************************************)
(* Blocks of several lines                                                 *)
(***************************************************************************)
block_lines(b) == split(strip(b), "\n")
NumLines(b) == Len(block_lines(b))
NonEmptyLines(b) ==
  Cardinality({i \in 1..NumLines(b) : strip(block_lines(b)[i]) # <<>>})
MathLineCount(b) == equation_line_count(strip(b), block_lines(b))
WordCount(b) == len_split(strip(b))
\* none of the rules ahead of the line scoring decides the block
Unresolved(b) ==
  /\ strip(b) # <<>>
  /\ ~explicit_delimited(strip(b))
  /\ ~has_text_command_line(block_lines(b))
  /\ ~is_text_list(strip(b), block_lines(b))
  /\ ~is_sentence_prose(strip(b), block_lines(b))
ScoredBlock == Classified /\ text_block.type = "str" /\ Unresolved(text_block.val)

\* C12 as stated: an unresolved block of 2 or 3 lines with at least one math
\* line is Math.
C12_AnyMathLineIsMath ==
  (ScoredBlock /\ NumLines(text_block.val) \in {2, 3}
     /\ MathLineCount(text_block.val) >= 1)
    => result = Return(TRUE)

\* C12: an unresolved block of 2 lines is Math iff one of its lines is a math
\* line; an unresolved block of 3 lines is Math iff two of its lines are math
\* lines and, when it holds more than 21 words, all three are.
C12_ShortBlockShare ==
  (ScoredBlock /\ NumLines(text_block.val) \in {2, 3}) =>
    result = Return(IF NumLines(text_block.val) = 2
                    THEN MathLineCount(text_block.val) >= 1
                    ELSE /\ MathLineCount(text_block.val) >= 2
                         /\ WordCount(text_block.val) > 21
                              => MathLineCount(text_block.val) = 3)

\* a block of 3 lines with exactly one math line was classified Prose
C12_Witness ==
  /\ ScoredBlock
  /\ NumLines(text_block.val) = 3
  /\ MathLineCount(text_block.val) = 1
  /\ result = Return(FALSE)

\* C13 as stated: an unresolved block of 4 to 10 lines is Math iff at least
\* half of its non-empty lines are math lines.
C13_HalfOfNonEmptyLines ==
  (ScoredBlock /\ NumLines(text_block.val) \in 4..10) =>
    result = Return(2 * MathLineCount(text_block.val) >= NonEmptyLines(text_block.val))

\* the share of math lines the decision asks of a block of n lines, eq of them
\* math lines, with words words: 60%, or 40% up to 5 lines, and 80% when the
\* block has more than 2 lines and more than 7 words a line
RequiredShare(eq, n, words) ==
  /\ 10 * eq >= 6 * n \/ (n <= 5 /\ 10 * eq >= 4 * n)
  /\ (n > 2 /\ words > 7 * n) => 10 * eq >= 8 * n

\* C13: an unresolved block of 4 or 5 lines is Math iff at least 40% of all its
\* lines are math lines, one of 6 to 10 lines iff at least 60% are, and in
\* both cases iff at least 80% are when it holds more than 7 words a line.
C13_MediumBlockShare ==
  (ScoredBlock /\ NumLines(text_block.val) \in 4..10) =>
    result = Return(RequiredShare(MathLineCount(text_block.val),
                                  NumLines(text_block.val), WordCount(text_block.val)))

\* a block of 6 lines with exactly 3 math lines was classified Prose
C13_Witness ==
  /\ ScoredBlock
  /\ NumLines(text_block.val) = 6
  /\ NonEmptyLines(text_block.val) = 6
  /\ MathLineCount(text_block.val) = 3
  /\ result = Return(FALSE)

\* C14 as stated: an unresolved block of more than 10 lines is Math iff at
\* least 60% of its non-empty lines are math lines, and iff at least 80% are
\* when it holds more than 7 words a line.
C14_ShareOfNonEmptyLines ==
  (ScoredBlock /\ NumLines(text_block.val) > 10) =>
    result = Return(IF WordCount(text_block.val) > 7 * NumLines(text_block.val)
                    THEN 10 * MathLineCount(text_block.val) >= 8 * NonEmptyLines(text_block.val)
                    ELSE 10 * MathLineCount(text_block.val) >= 6 * NonEmptyLines(text_block.val))

\* C14: an unresolved block of more than 10 lines is Math iff at least 60% of
\* all its lines, whitespace-only lines included, are math lines, and iff at
\* least 80% are when it holds more than 7 words a line; the 80% share is
\* asked of every block of more than 2 lines.
C14_LongBlockShare ==
  /\ (ScoredBlock /\ NumLines(text_block.val) > 10) =>
       result = Return(/\ 10 * MathLineCount(text_block.val) >= 6 * NumLines(text_block.val)
                       /\ WordCount(text_block.val) > 7 * NumLines(text_block.val)
                            => 10 * MathLineCount(text_block.val) >= 8 * NumLines(text_block.val))
  /\ (ScoredBlock /\ NumLines(text_block.val) \in 3..10
        /\ WordCount(text_block.val) > 7 * NumLines(text_block.val)
        /\ 10 * MathLineCount(text_block.val) < 8 * NumLines(text_block.val))
       => result = Return(FALSE)

\* a block of 11 lines, 6 of them math lines and 5 whitespace-only, was
\* classified Prose
C14_Witness ==
  /\ ScoredBlock
  /\ NumLines(text_block.val) = 11
  /\ NonEmptyLines(text_block.val) = 6
  /\ MathLineCount(text_block.val) = 6
  /\ result = Return(FALSE)

\* the first line starts with a capital, holds a word of 6 letters or more and
\* a period
C15_ProseSignals(b) ==
  LET first == block_lines(b)[1]
  IN  /\ first # <<>>
      /\ IsUpper(first[1])
      /\ \E i \in 1..Len(first) : first[i] = "."
      /\ \E i \in 1..(Len(first) - 5) : isalpha(SubSeq(first, i, i + 5))

\* C15 as stated: a block of more than 15 lines that is not explicitly
\* delimited and starts with prose signals is Prose, however many of its lines
\* are math lines.
C15_LongProseLikeIsProse ==
  (Classified /\ text_block.type = "str" /\ NumLines(text_block.val) > 15
     /\ ~explicit_delimited(strip(text_block.val)) /\ C15_ProseSignals(text_block.val))
    => result = Return(FALSE)

\* C15: an unresolved block of more than 15 lines that starts with prose
\* signals is scored like any other block: it is Math iff its share of math
\* lines reaches the required share, so it is Math when all its lines are.
C15_LongBlockIsScored ==
  (ScoredBlock /\ NumLines(text_block.val) > 15 /\ C15_ProseSignals(text_block.val)) =>
    /\ result = Return(RequiredShare(MathLineCount(text_block.val),
                                     NumLines(text_block.val), WordCount(text_block.val)))
    /\ MathLineCount(text_block.val) = NumLines(text_block.val) => result = Return(TRUE)

\* a block of 16 lines, each starting with a capital, ending in a period and
\* matching an equation pattern, was classified Math
C15_Witness ==
  /\ ScoredBlock
  /\ NumLines(text_block.val) = 16
  /\ C15_ProseSignals(text_block.val)
  /\ MathLineCount(text_block.val) = 16
  /\ result = Return(TRUE)

(***************************************************************************)
(* Properties of extract_content_from_pdf                                  *)
(***************************************************************************)
Extracted == pc = "done" /\ fn = "extract_content_from_pdf"
Returned == Extracted /\ extracted.exc = "none"
\* the first page's boxes were read, and its crop box is empty or infinite
DegenerateCropBox ==
  /\ Len(pdf_file.pages) >= 1
  /\ pdf_file.boxes_readable
  /\ (is_empty(pdf_file.rect) \/ is_infinite(pdf_file.rect))
\* fractions compared by cross-multiplication
CmEqual(a, b) == a.num * b.den = b.num * a.den
returned_margins(k) == item(extracted.ret.margins, k)

\* C16: when the first page's crop box is empty or infinite, the margins
\* returned have left, right, top and bottom equal to 0 and width and height
\* equal to the media box's width and height times 2.54 / 72.
C16_DegenerateCropBoxZeroMargins ==
  (Returned /\ DegenerateCropBox) =>
    /\ extracted.ret.margins.type = "dict"
    /\ \A k \in {"left", "right", "top", "bottom"} : returned_margins(k).num = 0
    /\ CmEqual(returned_margins("width"),
               Cm(254 * (pdf_file.mediabox.x1 - pdf_file.mediabox.x0), 7200))
    /\ CmEqual(returned_margins("height"),
               Cm(254 * (pdf_file.mediabox.y1 - pdf_file.mediabox.y0), 7200))

\* an empty crop box lying inside an A4 media box gave zero margins
C16_Witness ==
  /\ Returned
  /\ DegenerateCropBox
  /\ is_empty(pdf_file.rect)
  /\ pdf_file.rect.x0 > pdf_file.mediabox.x0
  /\ pdf_file.mediabox.x1 - pdf_file.mediabox.x0 = 595
  /\ returned_margins("left").num = 0
  /\ CmEqual(returned_margins("width"), Cm(595 * 254, 7200))

DefaultMargins(m) ==
  /\ m.type = "dict"
  /\ \A k \in {"left", "right", "top", "bottom"} : CmEqual(item(m, k), Cm(2, 1))
  /\ CmEqual(item(m, "width"), Cm(17, 1))
  /\ CmEqual(item(m, "height"), Cm(257, 10))

\* C17 as stated: margins computed from an empty or infinite crop box are the
\* defaults, 2 cm on each side and a content area of 17 x 25.7 cm.
C17_DegenerateCropBoxDefaults ==
  (Returned /\ DegenerateCropBox) => DefaultMargins(extracted.ret.margins)

\* C17: the defaults, 2 cm on each side and a content area of 17 x 25.7 cm, are
\* returned when reading the first page's boxes raises; an empty or infinite
\* crop box does not give them: its four margins are 0.
C17_DefaultsWhenBoxesUnreadable ==
  /\ (Returned /\ Len(pdf_file.pages) >= 1 /\ ~pdf_file.boxes_readable)
       => DefaultMargins(extracted.ret.margins)
  /\ (Returned /\ DegenerateCropBox) =>
       /\ extracted.ret.margins.type = "dict"
       /\ ~DefaultMargins(extracted.ret.margins)
       /\ \A k \in {"left", "right", "top", "bottom"} :
             CmEqual(returned_margins(k), Cm(0, 1))

\* a first page whose boxes cannot be read gave the defaults
C17_Witness ==
  /\ Returned
  /\ Len(pdf_file.pages) >= 1
  /\ ~pdf_file.boxes_readable
  /\ DefaultMargins(extracted.ret.margins)

\* the offset of the crop box from the media box on side k, in points
C18_Offset(k) ==
  CASE k = "left"   -> pdf_file.rect.x0 - pdf_file.mediabox.x0
    [] k = "right"  -> pdf_file.mediabox.x1 - pdf_file.rect.x1
    [] k = "top"    -> pdf_file.rect.y0 - pdf_file.mediabox.y0
    [] k = "bottom" -> pdf_file.mediabox.y1 - pdf_file.rect.y1

C19_NoneOnlyWithoutPages ==
  Returned =>
    /\ Len(pdf_file.pages) = 0 =>
         /\ extracted.ret.margins.type = "NoneType"
         /\ extracted.ret.text = <<>>
         /\ extracted.ret.image_paths = <<>>
    /\ Len(pdf_file.pages) >= 1 => extracted.ret.margins.type = "dict"

\* a document without pages gave margins None
C19_Witness ==
  /\ Returned
  /\ Len(pdf_file.pages) = 0
  /\ extracted.ret.margins.type = "NoneType"

\* something fails: the document cannot be opened, the boxes of its first page
\* cannot be read, its image directory cannot be made or a page cannot be loaded
C20_Failure ==
  \/ ~pdf_file.opens
  \/ Len(pdf_file.pages) >= 1 /\ ~pdf_file.boxes_readable
  \/ Len(pdf_file.pages) >= 1 /\ ~pdf_file.makedirs
  \/ \E i \in 1..Len(pdf_file.pages) : ~pdf_file.pages[i].loads

\* C20 as stated: no failure reaches the caller as an exception, and a document
\* that cannot be opened or whose boxes cannot be read gives the defaults.
C20_EveryFailureRecovered ==
  Extracted =>
    /\ extracted.exc = "none"
    /\ (~pdf_file.opens \/ (Len(pdf_file.pages) >= 1 /\ ~pdf_file.boxes_readable))
         => DefaultMargins(extracted.ret.margins)

\* C20: a failure to read the first page's boxes is recovered with the
\* defaults and a page that cannot be loaded ends the page loop with the
\* content gathered so far; a document that cannot be opened raises
\* PDFProcessingError and an image directory that cannot be made raises
\* OSError to the caller.
C20_FailuresRecoveredOrRaised ==
  Extracted =>
    /\ ~pdf_file.opens => extracted = Raise("PDFProcessingError")
    /\ (pdf_file.opens /\ Len(pdf_file.pages) >= 1 /\ ~pdf_file.makedirs)
         => extracted = Raise("OSError")
    /\ (pdf_file.opens /\ (Len(pdf_file.pages) = 0 \/ pdf_file.makedirs))
         => extracted.exc = "none"
    /\ (Returned /\ Len(pdf_file.pages) >= 1 /\ ~pdf_file.boxes_readable)
         => DefaultMargins(extracted.ret.margins)

\* a document that cannot be opened raised PDFProcessingError
C20_Witness ==
  /\ Extracted
  /\ ~pdf_file.opens
  /\ extracted = Raise("PDFProcessingError")

(***************************************************************************)
(* Properties of the body of the document                                  *)
(***************************************************************************)
\* the body: the one element generate_latex_document adds after the preamble
document_body(d) == d.ret[FirstEntryLine - 3][2]
\* the segments of the escaped text that are not empty, in their order
kept_segments(segments) == SelectSeq(segments, LAMBDA seg : seg # <<>>)
display_math(block) == <<"$", "$", "\n">> \o block \o <<"\n", "$", "$">>
explicit_line_break == <<" ", "\\", "\\", " ">>
occurs_in(sub, s) ==
  \E i \in 1..(Len(s) - Len(sub) + 1) : SubSeq(s, i, i + Len(sub) - 1) = sub
\* a block that may have come from the segment
C21_BlockOf(seg, block) ==
  \/ block = display_math(strip(seg))
  \/ block = replace(seg, "\n", explicit_line_break)
  \/ block = seg

\* C21 as stated: every segment of the escaped text, the empty ones included,
\* yields exactly one block of the body, in the same order.
C21_EverySegmentOneBlock ==
  Generated =>
    /\ Len(doc.processed_latex_parts) = Len(doc.paragraphs)
    /\ \A i \in 1..Len(doc.paragraphs) :
          i <= Len(doc.processed_latex_parts)
            /\ C21_BlockOf(doc.paragraphs[i], doc.processed_latex_parts[i])

\* C21: every segment of the escaped text that is not empty, the
\* whitespace-only ones included, yields exactly one block of the body, in the
\* same order; an empty segment yields none.
C21_EveryKeptSegmentOneBlock ==
  Generated =>
    LET kept == kept_segments(doc.paragraphs)
    IN  /\ Len(doc.processed_latex_parts) = Len(kept)
        /\ \A k \in 1..Len(kept) : C21_BlockOf(kept[k], doc.processed_latex_parts[k])
        /\ \A i \in 1..Len(doc.paragraphs) :
              Len(doc.rendered[i]) = (IF doc.paragraphs[i] = <<>> THEN 0 ELSE 1)

\* a text whose segments are a prose one, an empty one and a whitespace-only
\* one: two blocks stand in the body
C21_Witness ==
  /\ Generated
  /\ Len(doc.paragraphs) >= 3
  /\ \E i, j, k \in 1..Len(doc.paragraphs) :
        /\ doc.paragraphs[i] = <<>>
        /\ doc.paragraphs[j] # <<>> /\ C4_Blank(doc.paragraphs[j])
        /\ ~C4_Blank(doc.paragraphs[k])
  /\ Len(doc.processed_latex_parts) = 2

\* the place of the k-th block in the body when one blank line separates the
\* blocks
RECURSIVE block_offset(_, _)
block_offset(blocks, k) ==
  IF k = 1 THEN 0 ELSE block_offset(blocks, k - 1) + Len(blocks[k - 1]) + 2

\* C22: a Math block is the line $$, the trimmed block with its line breaks
\* as they were, and the line $$; a Prose block that is not blank has every
\* line break replaced by the explicit line break and holds no $$; the blocks
\* stand in the body with one blank line between two of them.
C22_BlockRendering ==
  Generated =>
    LET kept   == kept_segments(doc.paragraphs)
        blocks == doc.processed_latex_parts
        body   == document_body(doc)
    IN  /\ Len(blocks) = Len(kept)
        /\ \A k \in 1..Len(kept) :
              IF classify(kept[k])
              THEN /\ split(blocks[k], "\n")
                        = <<<<"$", "$">>>> \o split(strip(kept[k]), "\n") \o <<<<"$", "$">>>>
              ELSE ~C4_Blank(kept[k]) =>
                     /\ split(blocks[k], "\n")
                          = <<join(explicit_line_break, split(kept[k], "\n"))>>
                     /\ ~occurs_in(<<"$", "$">>, blocks[k])
        /\ \A k \in 1..Len(blocks) :
              /\ SubSeq(body, block_offset(blocks, k) + 1,
                        block_offset(blocks, k) + Len(blocks[k])) = blocks[k]
              /\ k > 1 => SubSeq(body, block_offset(blocks, k) - 1,
                                 block_offset(blocks, k)) = <<"\n", "\n">>
        /\ Len(body) = (IF blocks = <<>> THEN 0
                        ELSE block_offset(blocks, Len(blocks)) + Len(blocks[Len(blocks)]))

\* a Math block of two lines with whitespace trimmed off it, next to a Prose
\* block of two lines
C22_Witness ==
  /\ Generated
  /\ \E i, j \in 1..Len(doc.paragraphs) :
        /\ classify(doc.paragraphs[i])
        /\ strip(doc.paragraphs[i]) # doc.paragraphs[i]
        /\ len_lines(strip(doc.paragraphs[i])) = 2
        /\ ~classify(doc.paragraphs[j])
        /\ ~C4_Blank(doc.paragraphs[j])
        /\ len_lines(doc.paragraphs[j]) = 2
        /\ occurs_in(explicit_line_break, document_body(doc))

\* the blocks of the text as it was given, before the escaper
given_blocks == split2(get(content.text, Str(<<>>)).val, <<"\n", "\n">>)
C23_Delimited(b) ==
  startswith(strip(b), <<"$", "$">>) /\ endswith(strip(b), <<"$", "$">>)

\* C23: every math block of the given text, delimited by $$ or detected from
\* its lines, stands in the body character for character between $$ lines,
\* and a block delimited by $$ is still explicitly delimited after the escaper.
C23_MathBlocksVerbatim ==
  Generated =>
    \A i \in 1..Len(given_blocks) :
       LET b == given_blocks[i]
       IN  classify(b) =>
             /\ occurs_in(IF C23_Delimited(b) THEN strip(b) ELSE display_math(strip(b)),
                          document_body(doc))
             /\ C23_Delimited(b) => explicit_delimited(strip(escape(b)))

(***************************************************************************)
(* Properties of is_math_block: single lines                               *)
(***************************************************************************)
C24_Sentence(b) == len_lines(b) = 1 /\ len_split(b) > 8 /\ ends_sentence(b)
C24_Operators == {"=", "<", ">", "+", "-", "*", "/", "^", "_"}
\* inline math between single $ signs, at most two commands, at most two
\* operator symbols
C24_FewSignals(b) ==
  /\ CountIn(b, {"$"}) \in {0, 2, 4}
  /\ ~occurs_in(<<"$", "$">>, b)
  /\ CountIn(b, {"\\"}) <= 2
  /\ CountIn(b, C24_Operators) <= 2

\* C24: a single-line sentence of more than 8 words that ends in ".", "?" or
\* "!" is Prose, also with inline math between single $ signs, one or two
\* math commands or a few operator symbols.
C24_SentenceIsProse ==
  (Classified /\ text_block.type = "str"
     /\ C24_Sentence(strip(text_block.val)) /\ C24_FewSignals(text_block.val))
    => result = Return(FALSE)

(***************************************************************************)
(* Properties of the whole document                                        *)
(***************************************************************************)
page_break == <<"\n\n\\clearpage % Ensure images start after text, or on new page if needed">>
section_heading == <<"\\section*{Extracted Images/Formulas}">>
document_close == <<"\n\n\\end{document}">>
BodyLine == FirstEntryLine - 3

\* C25: the document is the preamble, the body, the images/formulas section
\* and the closing line, in this order; the section (page break, heading,
\* entries) is there iff image_paths is not empty, it stands after the body,
\* and \end{document} is the last element for every input.
C25_DocumentOrder ==
  Generated =>
    LET d == doc.ret
    IN  /\ Len(d) >= BodyLine + 1
        /\ d[1] = <<"\\documentclass{article}">>
        /\ d[BodyLine - 2] = <<"\\begin{document}">>
        /\ d[BodyLine - 1] = <<"\\maketitle">>
        /\ d[BodyLine] = <<"", join(<<"\n", "\n">>, doc.processed_latex_parts)>>
        /\ d[Len(d)] = document_close
        /\ \A i \in 1..(Len(d) - 1) : d[i] # document_close
        /\ IF given_image_paths = <<>>
           THEN /\ Len(d) = BodyLine + 1
                /\ \A i \in 1..Len(d) : d[i] # page_break /\ d[i] # section_heading
           ELSE /\ d[BodyLine + 1] = page_break
                /\ d[BodyLine + 2] = section_heading
                /\ Len(document_entries(doc)) = Len(given_image_paths)
                /\ \A i \in 1..Len(d) :
                      (d[i] = page_break \/ d[i] = section_heading) => i > BodyLine

\* a document with a body block and images: the section follows
\* the body and the closing line follows an entry
C25_Witness ==
  /\ Generated
  /\ doc.processed_latex_parts # <<>>
  /\ given_image_paths # <<>>
  /\ doc.ret[BodyLine + 1] = page_break
  /\ Len(doc.ret) > BodyLine + 3
  /\ doc.ret[Len(doc.ret)] = document_close

(***************************************************************************)
(* Properties of extract_content_from_pdf: the images                      *)
(***************************************************************************)
\* the pages the loop went through: those before the first page that cannot
\* be loaded
C28_Processed ==
  {p \in 1..Len(pdf_file.pages) : \A q \in 1..p : pdf_file.pages[q].loads}
\* the images, by page and index within the page, that were extracted and
\* written
C28_Saved ==
  {pk \in C28_Processed \X (1..MaxPageImages) :
     /\ pk[2] <= Len(pdf_file.pages[pk[1]].images)
     /\ pdf_file.pages[pk[1]].images[pk[2]].extracts
     /\ pdf_file.pages[pk[1]].images[pk[2]].saves}
C28_Before(a, b) == a[1] < b[1] \/ (a[1] = b[1] /\ a[2] <= b[2])
C28_Rank(pk) == Cardinality({o \in C28_Saved : C28_Before(o, pk)})
C28_Path(pk) ==
  pdf_image_dir_name(pdf_path) \o <<"/">>
    \o image_filename(pk[1] - 1, pk[2] - 1, pdf_file.pages[pk[1]].images[pk[2]].ext)

\* C28: image_paths holds exactly the images that were extracted and written,
\* by page and then by index within the page; an image that fails is the only
\* one left out, and a page that raises ends the loop with the text and the
\* images gathered so far returned.
C28_SavedImagesInOrder ==
  (Returned /\ Len(pdf_file.pages) > 0) =>
    LET paths == extracted.ret.image_paths
    IN  /\ Len(paths) = Cardinality(C28_Saved)
        /\ \A pk \in C28_Saved : paths[C28_Rank(pk)] = C28_Path(pk)
        /\ extracted.ret.text
             = concat([p \in 1..Cardinality(C28_Processed) |-> pdf_file.pages[p].text])

\* two pages: on the first an image that cannot be extracted before one that is
\* written, on the second an image that is written
C28_Witness ==
  /\ Returned
  /\ Len(pdf_file.pages) = 2
  /\ Len(pdf_file.pages[1].images) = 2
  /\ ~pdf_file.pages[1].images[1].extracts
  /\ C28_Saved = {<<1, 2>>, <<2, 1>>}
  /\ Len(extracted.ret.image_paths) = 2
  /\ extracted.ret.image_paths[1] = C28_Path(<<1, 2>>)
  /\ extracted.ret.image_paths[2] = C28_Path(<<2, 1>>)

(***************************************************************************)
(* Properties of is_math_block: the decision                               *)
(***************************************************************************)
StrongLineCount(b) == strong_math_line_count(strip(b), block_lines(b))
C29_ShortPlain(b) ==
  /\ Len(strip(b)) < 15
  /\ WordCount(b) <= 2
  /\ (strip(b)[1] = "\\" \/ identifier_or_operator_shaped(strip(b)))
  /\ lower(strip(b)) \notin common_short_prose
  /\ ~(Len(strip(b)) > 3 /\ isalpha(strip(b)))

C30_CountersAndShares ==
  (Classified /\ text_block.type = "str" /\ strip(text_block.val) # <<>>) =>
    LET b      == text_block.val
        n      == NumLines(b)
        eq     == MathLineCount(b)
        strong == StrongLineCount(b)
    IN  /\ strong <= eq
        /\ eq <= n
        /\ n >= 2 => strong = eq
        /\ (Unresolved(b) /\ n >= 2) =>
              (result = Return(TRUE)
                 <=> /\ 10 * eq >= (IF n <= 5 THEN 4 ELSE 6) * n
                     /\ (n > 2 /\ WordCount(b) > 7 * n) => 10 * eq >= 8 * n)

\* a block of 5 lines with 2 math lines and a lone command that is not
\* counted: 0.4 of the lines, Math
C30_Witness ==
  /\ ScoredBlock
  /\ NumLines(text_block.val) = 5
  /\ MathLineCount(text_block.val) = 2
  /\ StrongLineCount(text_block.val) = 2
  /\ \E i \in 1..5 : block_lines(text_block.val)[i] = <<"\\", "a", "l", "p", "h", "a">>
  /\ result = Return(TRUE)

(***************************************************************************)
(* Properties of convert_image_to_latex                                    *)
(***************************************************************************)
Converted == pc = "done" /\ fn = "convert_image_to_latex"

\* C26: convert_image_to_latex raises when the image file does not exist,
\* returns None when the OCR output is empty or holds no math expression, and
\* otherwise returns "$$ <expr> $$" for an expression <expr> of the OCR
\* output of that image; it returns no formula from anywhere else.
C26_FormulaFromOcrOutput ==
  Converted =>
    /\ ~image_file.exists => latex_formula.exc = "FileNotFoundError"
    /\ (image_file.exists /\ ~("$" \in Range(image_file.ocr_output)))
         => latex_formula = Return(None)
    /\ (latex_formula.exc = "none" /\ latex_formula.ret # None) =>
         LET v == latex_formula.ret.val
         IN  /\ Len(v) >= 6
             /\ startswith(v, <<"$", "$", " ">>)
             /\ endswith(v, <<" ", "$", "$">>)
             /\ occurs_in(SubSeq(v, 4, Len(v) - 3), image_file.ocr_output)

(***************************************************************************)
(* Properties of upload_pdf                                                *)
(***************************************************************************)
\* the .tex files and the files of the image directories
OutputFiles ==
  {f \in disk : \/ endswith(f.path, <<".", "t", "e", "x">>)
                \/ endswith(dirname(f.path), <<"_", "i", "m", "a", "g", "e", "s">>)}
\* what a file belongs to: the .tex file itself, or its image directory
OutputOf(f) ==
  IF endswith(f.path, <<".", "t", "e", "x">>) THEN f.path ELSE dirname(f.path)

\* C27: two requests share no file: a .tex file or an image directory is
\* written and read by one request only and holds one document only, also
\* when the two names differ in non-alphanumeric characters only or are equal.
C27_NoSharedFiles ==
  fn = "upload_pdf" =>
    \A f, g \in OutputFiles :
       OutputOf(f) = OutputOf(g) =>
         /\ Cardinality(f.writers \cup f.readers \cup g.writers \cup g.readers) <= 1
         /\ f.document = g.document
====
